---- MODULE Spec2Model ----
(***************************************************************************)
(* Model of modules/vocoder.py (MNP-SVC): the loaders load_model and       *)
(* load_onnx_model, the construction of CombSubMinimumNoisedPhase and its  *)
(* forward pass (phase accumulator, combtooth excitation, noise tiling,    *)
(* frame arithmetic of the STFT / inverse STFT).                           *)
(*                                                                         *)
(* Arithmetic.  Frequencies are integers in Hz on input.  Inside forward   *)
(* the per-sample F0 is kept in half-Hz (so that the jitter factor 1/2 and *)
(* the F0 offset (o - 2) * 0.5 stay integral), and a phase is kept in      *)
(* ticks of 1 / (2 * sampling_rate) cycle: one cycle is 2 * sampling_rate  *)
(* ticks, half a cycle is sampling_rate ticks, and cumsum(f0 /             *)
(* sampling_rate) is the running sum of the half-Hz values.  An angle in   *)
(* radians is kept in units of pi / sampling_rate, so that dividing it by  *)
(* 2 pi gives its number of ticks.  All of this is exact arithmetic on the *)
(* inputs that these grids can represent.                                  *)
(*                                                                         *)
(* Spectra are not computed: a filtered spectrum is the record of what it  *)
(* is computed from (excitation, predicted filter, static filter), and the *)
(* frame counts and lengths of torch.stft / torch.istft are computed.      *)
(***************************************************************************)
EXTENDS Integers, Sequences, FiniteSets, TLC

VARIABLES
  model,    \* the constructed module instance (its attributes and buffers)
  gen,      \* position of torch's global default random generator
  call,     \* per caller: the forward call it is in, and its result
  loader    \* the loader call (load_model / load_onnx_model) and its files

vars == <<model, gen, call, loader>>

(***************************************************************************)
(* Bounds of the model.                                                    *)
(***************************************************************************)
MaxFrames == 2          \* frames of a call of one caller, batch of one
MaxBatch == 2           \* batch elements of a call
MaxChunkFrames == 3     \* frames of a sequence synthesised in two chunks
MaxShapeFrames == 128   \* frames of a call when the shapes are what is checked

(***************************************************************************)
(* Program constants.                                                      *)
(***************************************************************************)
NoiseBufferFactor == 127   \* static noise has win_length * 127 samples

(***************************************************************************)
(* Helpers on sequences (tensors with one axis).                           *)
(***************************************************************************)
Last(s) == s[Len(s)]

\* t.unsqueeze(-1).repeat(1, 1, k).flatten(1): each element k times in a row.
RepeatEach(s, k) == [i \in 1..(Len(s) * k) |-> s[((i - 1) \div k) + 1]]

\* torch.cumsum along the sample axis.
RECURSIVE CumSum(_, _, _)
CumSum(s, lo, hi) ==
  IF lo > hi THEN <<>>
  ELSE IF lo = hi THEN <<s[lo]>>
  ELSE LET mid == (lo + hi) \div 2
           L == CumSum(s, lo, mid)
           R == CumSum(s, mid + 1, hi)
       IN L \o [i \in 1..Len(R) |-> R[i] + Last(L)]

\* t.flatten(): the rows of a (B, T) tensor one after the other.
RECURSIVE Flatten(_)
Flatten(rows) ==
  IF rows = <<>> THEN <<>> ELSE Head(rows) \o Flatten(Tail(rows))

\* t.reshape(B, T) of a flat tensor of B * T elements.
Unflatten(flat, B, T) == [b \in 1..B |-> [t \in 1..T |-> flat[(b - 1) * T + t]]]

Pow2(k) == IF k = 0 THEN 1 ELSE IF k = 1 THEN 2 ELSE 4

(***************************************************************************)
(* Construction: CombSubMinimumNoisedPhase.__init__.                       *)
(***************************************************************************)
\* torch.Generator: a counter-based stream, value k of the stream of a seed.
\* torch.rand draws from [0, 1); here in quarters: 0, 1/4, 2/4, 3/4.
RandQuarter(seed, k) == (((k + seed) * (k + seed + 1)) \div 2 + seed + k \div 3) % 4

\* (torch.rand([n], generator = gen) * 2.0 - 1.0), drawn from position `from`
\* of the stream; values in quarters, so in [-1, 1) as the code's are.
RandNoise(seed, from, n) == [i \in 1..n |-> RandQuarter(seed, from + i - 1) * 2 - 4]

\* self.pred_filter_size
PredFilterSize(win_length) == win_length \div 2 + 1

\* The keys of split_map, as __init__ adds them.
SplitMapKeys(cfg) ==
  LET use_noise == ~cfg.no_use_noise IN
       (IF use_noise /\ cfg.use_noise_env THEN {"noise_envelope_magnitude"} ELSE {})
  \cup (IF cfg.use_harmonic_env THEN {"harmonic_envelope_magnitude"} ELSE {})
  \cup (IF cfg.use_f0_offset THEN {"f0_offset"} ELSE {})
  \cup (IF cfg.add_noise THEN {"add_noise_magnitude", "add_noise_phase"} ELSE {})
  \cup (IF cfg.add_noise /\ cfg.use_add_noise_env
          THEN {"add_noise_envelope_magnitude"} ELSE {})
  \cup (IF cfg.use_phase_offset THEN {"phase_offset"} ELSE {})
  \cup (IF cfg.use_short_filter
          THEN {"short_harmonic_magnitude", "short_harmonic_phase"} ELSE {})
  \cup (IF use_noise /\ cfg.use_noise_short_filter
          THEN {"short_noise_magnitude", "short_noise_phase"} ELSE {})
  \cup {"harmonic_magnitude", "harmonic_phase", "noise_magnitude", "noise_phase"}

\* A schema with one filter per frame for every filter key.
SplitWidthSingle(cfg, key) ==
  LET pfs == PredFilterSize(cfg.win_length) IN
  CASE key \in {"noise_envelope_magnitude", "add_noise_envelope_magnitude"}
         -> cfg.block_size \div cfg.noise_env_size_downsamples
    [] key = "harmonic_envelope_magnitude"
         -> cfg.block_size \div cfg.harmonic_env_size_downsamples
    [] key = "f0_offset"
         -> cfg.block_size \div cfg.f0_offset_size_downsamples
    [] OTHER -> pfs

\* The width split_map gives a key.
SplitWidth(cfg, key) ==
  LET pfs == PredFilterSize(cfg.win_length) IN
  CASE key \in {"noise_envelope_magnitude", "add_noise_envelope_magnitude"}
         -> cfg.block_size \div cfg.noise_env_size_downsamples
    [] key = "harmonic_envelope_magnitude"
         -> cfg.block_size \div cfg.harmonic_env_size_downsamples
    [] key = "f0_offset"
         -> cfg.block_size \div cfg.f0_offset_size_downsamples
    [] key \in {"add_noise_magnitude", "add_noise_phase", "phase_offset"}
         -> pfs
    [] OTHER -> pfs * 4

SplitMap(cfg) == [key \in SplitMapKeys(cfg) |-> SplitWidth(cfg, key)]

\* A constructor that draws the add-noise buffer first.
StaticNoiseAfterAddNoise(cfg) ==
  RandNoise(cfg.noise_seed,
            IF cfg.add_noise THEN cfg.win_length * NoiseBufferFactor ELSE 0,
            cfg.win_length * NoiseBufferFactor)

\* static_noise_t (and static_add_noise_t, drawn after it from the same generator)
StaticNoise(cfg) == RandNoise(cfg.noise_seed, 0, cfg.win_length * NoiseBufferFactor)

StaticAddNoise(cfg) ==
  IF cfg.add_noise
    THEN RandNoise(cfg.noise_seed, cfg.win_length * NoiseBufferFactor,
                   cfg.win_length * NoiseBufferFactor)
    ELSE <<>>

\* The minimum-phase windowed-sinc filters: computed from sampling_rate,
\* win_length and block_size alone; kept as what they are computed from, with
\* the number of bins of the final rfft (a signal of win_length samples).
MinPhaseWsinc(cfg) ==
  [of |-> "minphase_wsinc", sampling_rate |-> cfg.sampling_rate,
   size |-> cfg.win_length, bins |-> cfg.win_length \div 2 + 1]

MinPhaseWsincEnv(cfg) ==
  [of |-> "minphase_wsinc_env", sampling_rate |-> cfg.sampling_rate,
   size |-> cfg.block_size \div 2, bins |-> cfg.win_length \div 2 + 1]

\* The instance __init__ leaves behind.
Construct(cfg) ==
  [type |-> "CombSubMinimumNoisedPhase",
   sampling_rate |-> cfg.sampling_rate,
   block_size |-> cfg.block_size,
   win_length |-> cfg.win_length,
   window |-> [of |-> "hann_window", size |-> cfg.win_length],
   f0_input_variance |-> cfg.f0_input_variance,
   f0_offset_size_downsamples |-> cfg.f0_offset_size_downsamples,
   noise_env_size_downsamples |-> cfg.noise_env_size_downsamples,
   harmonic_env_size_downsamples |-> cfg.harmonic_env_size_downsamples,
   use_harmonic_env |-> cfg.use_harmonic_env,
   use_noise_env |-> cfg.use_noise_env,
   use_add_noise_env |-> cfg.use_add_noise_env,
   use_f0_offset |-> cfg.use_f0_offset,
   add_noise |-> cfg.add_noise,
   use_phase_offset |-> cfg.use_phase_offset,
   noise_seed |-> cfg.noise_seed,
   pred_filter_size |-> PredFilterSize(cfg.win_length),
   use_noise |-> ~cfg.no_use_noise,
   use_short_filter |-> cfg.use_short_filter,
   use_noise_short_filter |-> cfg.use_noise_short_filter,
   split_map |-> SplitMap(cfg),
   static_noise_t |-> StaticNoise(cfg),
   static_add_noise_t |-> StaticAddNoise(cfg),
   static_freq_minphase_wsinc |-> MinPhaseWsinc(cfg),
   static_freq_minphase_wsinc_env |-> MinPhaseWsincEnv(cfg)]

\* A constructor call of the given shape: the flags at the constructor's
\* defaults, the F0 jitter switched off.
BaseConfig(sampling_rate, block_size, win_length) ==
  [sampling_rate |-> sampling_rate, block_size |-> block_size,
   win_length |-> win_length,
   f0_input_variance |-> 0,
   f0_offset_size_downsamples |-> 1,
   noise_env_size_downsamples |-> 4,
   harmonic_env_size_downsamples |-> 4,
   use_harmonic_env |-> FALSE, use_noise_env |-> TRUE,
   use_add_noise_env |-> TRUE, add_noise |-> FALSE,
   use_phase_offset |-> FALSE, use_f0_offset |-> FALSE,
   no_use_noise |-> FALSE, use_short_filter |-> FALSE,
   use_noise_short_filter |-> FALSE, noise_seed |-> 289]

(***************************************************************************)
(* forward, first part (lines 384-414): upsampling, F0 jitter from the     *)
(* global generator, first accumulation, phase_frames for the predictor.   *)
(***************************************************************************)
\* One cycle in ticks.
CycleTicks(m) == 2 * m.sampling_rate

\* torch.round on c / cycle: the nearest integer, a half going to the even one.
RoundHalfEven(c, cycle) ==
  LET q == c \div cycle
      r == c - q * cycle
  IN IF 2 * r < cycle THEN q
     ELSE IF 2 * r > cycle THEN q + 1
     ELSE IF q % 2 = 0 THEN q ELSE q + 1

\* x - torch.round(x)
WrapRound(c, cycle) == c - cycle * RoundHalfEven(c, cycle)

\* torch's global generator: the stream torch.randn_like draws from, here
\* whole numbers of standard deviations; its state is a position in it.
GlobalStream == <<1, 0, 2>>

GlobalRandn(k) == GlobalStream[(k % Len(GlobalStream)) + 1]

AdvanceGen(g, k) == (g + k) % Len(GlobalStream)

\* f0_frames.repeat(1, 1, block_size).flatten(1)
UpsampleF0(m, inputs) ==
  [b \in 1..inputs.B |-> RepeatEach(inputs.f0_frames[b], m.block_size)]

\* f0 * 2 ** (-variance / 12) * 2 ** (f0_variance / 12), f0_variance =
\* randn * variance: with the variance in whole octaves (0 or 12 semitones)
\* the factor is 2 ** (randn - 1) or 1.  The result is in half-Hz.
JitterF0(m, f0, g) ==
  LET T == Len(f0[1]) IN
  [b \in 1..Len(f0) |->
     [t \in 1..T |->
        f0[b][t] * Pow2(1 + (GlobalRandn(g + (b - 1) * T + t - 1) - 1)
                              * (m.f0_input_variance \div 12))]]

\* initial_phase / (2 pi) of batch element b, in ticks (0 when it is None).
InitialPhaseTicks(inputs, b) ==
  IF inputs.initial_phase = <<>> THEN 0 ELSE inputs.initial_phase[b]

\* torch.cumsum(f0 / sampling_rate, axis = 1) + initial_phase / (2 pi)
Accumulate(f0, inputs) ==
  [b \in 1..Len(f0) |->
     LET c == CumSum(f0[b], 1, Len(f0[b])) IN
     [t \in 1..Len(c) |-> c[t] + InitialPhaseTicks(inputs, b)]]

\* x - torch.round(x), elementwise
WrapPhase(m, cum) ==
  [b \in 1..Len(cum) |->
     [t \in 1..Len(cum[b]) |-> WrapRound(cum[b][t], CycleTicks(m))]]

\* The precision the sum is carried out in.
AccDtype(inputs) == IF inputs.infer THEN "float64" ELSE "float32"

\* 2 pi * x.reshape(B, -1, block_size)[:, :, 0:1]
PhaseFrames(m, x) ==
  [b \in 1..Len(x) |->
     [k \in 1..(Len(x[b]) \div m.block_size) |-> x[b][(k - 1) * m.block_size + 1]]]

(***************************************************************************)
(* forward, second part (lines 417-558): F0 offset, second accumulation,   *)
(* filters, combtooth, envelopes, noise, STFT, sum, inverse STFT.          *)
(***************************************************************************)
Min(a, b) == IF a < b THEN a ELSE b

Max(a, b) == IF a < b THEN b ELSE a

\* f0 + ((ctrls['f0_offset'] - 2.) * 0.5) repeated f0_offset_size_downsamples
\* times each; in half-Hz the offset is o - 2.
OffsetF0(m, f0, ctrls) ==
  [b \in 1..Len(f0) |->
     LET off == RepeatEach(ctrls["f0_offset"].rows[b], m.f0_offset_size_downsamples)
         noff == Len(ctrls["f0_offset"].rows[b]) * m.f0_offset_size_downsamples
     IN [t \in 1..Len(f0[b]) |->
           f0[b][t] + (IF t <= noff THEN off[t] - 2 ELSE 0)]]

\* A comparison that shifts instead of rolling: the last sample has no
\* successor and never fires.
CombtoothShifted(x) ==
  LET B == Len(x)
      T == Len(x[1])
      flat == Flatten(x)
  IN Unflatten([j \in 1..(B * T) |->
                  IF j < B * T /\ flat[j + 1] - flat[j] < 0 THEN 1 ELSE 0], B, T)

\* A comparison that also fires where the wrapped phase stands still.
CombtoothNonStrict(x) ==
  LET B == Len(x)
      T == Len(x[1])
      flat == Flatten(x)
      rolled == [j \in 1..(B * T) |-> flat[(j % (B * T)) + 1]]
  IN Unflatten([j \in 1..(B * T) |-> IF rolled[j] - flat[j] <= 0 THEN 1 ELSE 0], B, T)

\* torch.where(x.roll(-1) - x < 0., 1., 0.): roll without dims rolls the
\* flattened tensor, and the result has the shape of x.
Combtooth(x) ==
  LET B == Len(x)
      T == Len(x[1])
      flat == Flatten(x)
      rolled == [j \in 1..(B * T) |-> flat[(j % (B * T)) + 1]]
  IN Unflatten([j \in 1..(B * T) |-> IF rolled[j] - flat[j] < 0 THEN 1 ELSE 0], B, T)

\* torch.clamp(v, min = -1., max = 1.)
Clamp(v) == IF v < -1 THEN -1 ELSE IF v > 1 THEN 1 ELSE v

\* clamp(ctrls[key]).flatten(1), each value repeated `down` times
Envelope(ctrls, key, down) ==
  [b \in 1..Len(ctrls[key].rows) |->
     LET row == ctrls[key].rows[b]
         n == Len(row)
     IN [i \in 1..(n * down) |-> Clamp(row[((i - 1) \div down) + 1])]]

\* signal * env with broadcasting along the sample axis (env of T or of 1 sample)
ApplyEnvelope(sig, env) ==
  [b \in 1..Len(sig) |->
     LET nenv == Len(env[b]) IN
     [t \in 1..Len(sig[b]) |->
        sig[b][t] * (IF nenv = 1 THEN env[b][1]
                     ELSE IF t <= nenv THEN env[b][t] ELSE 0)]]

\* t.repeat(k) of a one-axis tensor: k copies one after the other
Tile(s, k) == [i \in 1..(Len(s) * k) |-> s[((i - 1) % Len(s)) + 1]]

\* t[:n]
Take(s, n) == SubSeq(s, 1, Min(n, Len(s)))

\* A tiling with T // N copies, one too few.
NoiseExcitationShort(m, B, T) ==
  LET N == Len(m.static_noise_t)
      row == Take(Tile(m.static_noise_t, T \div N), T)
  IN [b \in 1..B |-> row]

\* static_noise_t.unsqueeze(0).repeat(B, T // N + 1)[:, :T]
NoiseExcitation(m, B, T) ==
  LET N == Len(m.static_noise_t)
      row == Take(Tile(m.static_noise_t, T \div N + 1), T)
  IN [b \in 1..B |-> row]

\* torch.stft(center = True): the number of frames of a signal of T samples
StftFrames(T, n_fft, hop) == 1 + (T + 2 * (n_fft \div 2) - n_fft) \div hop

\* An inverse that does not trim the centre padding.
IstftLengthUntrimmed(frames, n_fft, hop) == n_fft + hop * (frames - 1)

\* torch.istft(center = True, length = None): the number of samples returned
IstftLength(frames, n_fft, hop) == n_fft + hop * (frames - 1) - 2 * (n_fft \div 2)

\* torch.istft accepts the hop (0 < hop <= win_length) and the overlap-added
\* squared Hann window is nowhere zero (which a hop of win_length makes it)
IstftAccepts(n_fft, hop) == 0 < hop /\ hop < n_fft

\* exp(magnitude + 1j * phase).reshape(B, -1, win_length // 2 + 1), then the
\* last frame appended once more: the number of frames (0: reshape fails)
FilterFrames(m, n, width) ==
  IF (n * width) % (m.win_length \div 2 + 1) = 0
    THEN (n * width) \div (m.win_length \div 2 + 1) + 1
    ELSE 0

\* A filter that wraps around: the first predicted filter appended.
FilterSequenceWrap(m, n, width) ==
  LET k == (n * width) \div (m.win_length \div 2 + 1)
  IN [j \in 1..(k + 1) |-> IF j <= k THEN j ELSE 1]

\* The same tensor frame by frame (lines 447-448): frame j of the result is
\* the j-th predicted filter of the reshaped predictor output, the last one
\* (filter[:, -1:, :]) concatenated once more at the end.
FilterSequence(m, n, width) ==
  LET k == (n * width) \div (m.win_length \div 2 + 1)
  IN [j \in 1..(k + 1) |-> IF j <= k THEN j ELSE k]

\* static_freq_minphase_wsinc.unsqueeze(-1).repeat(1, T // hop + 1): frames
StaticFrames(T, hop) == T \div hop + 1

\* two sizes of one axis multiply elementwise (broadcasting)
Broadcasts(a, b) == a = b \/ a = 1 \/ b = 1

\* the first check of a list that fails, "none" when all pass
RECURSIVE FirstError(_)
FirstError(checks) ==
  IF checks = <<>> THEN "none"
  ELSE IF ~Head(checks)[1] THEN Head(checks)[2]
  ELSE FirstError(Tail(checks))

\* What the predictor (unit2ctrl, outside this file) returns: a tensor for
\* every key of split_map, of that key's width.  A filter tensor is kept as
\* the identity of its content, the others as their values per batch element
\* (n frames of `width` values).  Pattern p picks the content.
RowKeys ==
  {"f0_offset", "harmonic_envelope_magnitude", "noise_envelope_magnitude",
   "add_noise_envelope_magnitude"}

PatternValue(key, p, i) ==
  IF key = "f0_offset"
    THEN (CASE p = 0 -> 2 [] p = 1 -> 3 [] OTHER -> IF i % 2 = 1 THEN 0 ELSE 4)
    ELSE (CASE p = 0 -> 1 [] p = 1 -> 2 [] OTHER -> IF i % 2 = 1 THEN -2 ELSE 0)

PredictorOutput(m, inputs, p) ==
  [key \in DOMAIN m.split_map |->
     IF key \in RowKeys
       THEN [width |-> m.split_map[key],
             rows |-> [b \in 1..inputs.B |->
                         [i \in 1..(inputs.n * m.split_map[key]) |->
                            PatternValue(key, p, i)]]]
       ELSE [width |-> m.split_map[key], id |-> p]]

CtrlPatterns == {0, 1, 2}

\* Lines 384-414: what forward has computed when it calls the predictor,
\* with the global generator at position g.
ForwardFirst(m, inputs, g) ==
  LET f0 == JitterF0(m, UpsampleF0(m, inputs), g)
      x == WrapPhase(m, Accumulate(f0, inputs))
  IN [f0 |-> f0, x |-> x, phase_frames |-> PhaseFrames(m, x)]

\* The whole of forward: the global generator at position g when randn_like
\* draws, ctrls what the predictor returns.
Forward(m, inputs, g, ctrls) ==
  LET B == inputs.B
      n == inputs.n
      T == n * m.block_size
      W == m.win_length
      hop == m.block_size \div 4
      hop_s == (W \div 4) \div 4
      first == ForwardFirst(m, inputs, g)
      has(key) == key \in DOMAIN ctrls
      rowlen(key, down) == IF has(key) THEN Len(ctrls[key].rows[1]) * down ELSE 0
      \* magnitude + 1j * phase: the width of the sum (0: the sizes differ)
      pair_width(mag, ph) ==
        IF has(mag) /\ has(ph) /\ Broadcasts(ctrls[mag].width, ctrls[ph].width)
          THEN Max(ctrls[mag].width, ctrls[ph].width)
          ELSE 0
      frames_of(key) ==
        LET ph == IF key = "harmonic_magnitude" THEN "harmonic_phase"
                  ELSE IF key = "noise_magnitude" THEN "noise_phase"
                  ELSE IF key = "short_harmonic_magnitude" THEN "short_harmonic_phase"
                  ELSE "short_noise_phase"
        IN IF pair_width(key, ph) # 0
             THEN FilterFrames(m, n, pair_width(key, ph))
             ELSE 0
      \* lines 422-439
      f0 == IF m.use_f0_offset THEN OffsetF0(m, first.f0, ctrls) ELSE first.f0
      cum == Accumulate(f0, inputs)
      x == WrapPhase(m, cum)
      \* lines 467-479
      combtooth == Combtooth(x)
      excitation ==
        IF m.use_harmonic_env
          THEN ApplyEnvelope(combtooth,
                 Envelope(ctrls, "harmonic_envelope_magnitude",
                          m.harmonic_env_size_downsamples))
          ELSE combtooth
      \* lines 497-507
      noise_raw == NoiseExcitation(m, B, T)
      noise_t ==
        IF m.use_noise /\ m.use_noise_env
          THEN ApplyEnvelope(noise_raw,
                 Envelope(ctrls, "noise_envelope_magnitude",
                          m.noise_env_size_downsamples))
          ELSE noise_raw
      \* lines 522-541: frames of the STFTs
      frames == IF hop > 0 THEN StftFrames(T, W, hop) ELSE 0
      frames_s == IF hop_s > 0 THEN StftFrames(T, W, hop_s) ELSE 0
      static_frames == IF hop > 0 THEN StaticFrames(T, hop) ELSE 0
      static_frames_s == IF hop_s > 0 THEN StaticFrames(T, hop_s) ELSE 0
      err == FirstError(<<
        <<m.use_f0_offset => has("f0_offset"), "KeyError f0_offset">>,
        <<m.use_f0_offset =>
            rowlen("f0_offset", m.f0_offset_size_downsamples) = T,
          "reshape f0_offset">>,
        <<has("harmonic_magnitude") /\ has("harmonic_phase"), "KeyError harmonic">>,
        <<pair_width("harmonic_magnitude", "harmonic_phase") # 0, "size harmonic">>,
        <<frames_of("harmonic_magnitude") # 0, "reshape harmonic">>,
        <<m.use_noise => has("noise_magnitude") /\ has("noise_phase"),
          "KeyError noise">>,
        <<m.use_noise => pair_width("noise_magnitude", "noise_phase") # 0,
          "size noise">>,
        <<m.use_noise => frames_of("noise_magnitude") # 0, "reshape noise">>,
        <<m.add_noise => has("add_noise_magnitude") /\ has("add_noise_phase"),
          "KeyError add_noise">>,
        <<m.add_noise => pair_width("add_noise_magnitude", "add_noise_phase") # 0,
          "size add_noise">>,
        <<m.use_short_filter =>
            has("short_harmonic_magnitude") /\ has("short_harmonic_phase"),
          "KeyError short_harmonic">>,
        <<m.use_short_filter =>
            pair_width("short_harmonic_magnitude", "short_harmonic_phase") # 0,
          "size short_harmonic_magnitude">>,
        <<m.use_short_filter => frames_of("short_harmonic_magnitude") # 0,
          "reshape short_harmonic">>,
        <<(m.use_noise /\ m.use_noise_short_filter) =>
            has("short_noise_magnitude") /\ has("short_noise_phase"),
          "KeyError short_noise">>,
        <<(m.use_noise /\ m.use_noise_short_filter) =>
            pair_width("short_noise_magnitude", "short_noise_phase") # 0,
          "size short_noise_magnitude">>,
        <<(m.use_noise /\ m.use_noise_short_filter) =>
            frames_of("short_noise_magnitude") # 0,
          "reshape short_noise">>,
        <<m.use_harmonic_env => has("harmonic_envelope_magnitude"),
          "KeyError harmonic_envelope_magnitude">>,
        <<m.use_harmonic_env =>
            rowlen("harmonic_envelope_magnitude",
                   m.harmonic_env_size_downsamples) \in {T, 1},
          "size harmonic_env">>,
        <<m.use_short_filter => hop_s > 0, "stft hop_length short">>,
        <<m.use_short_filter =>
            /\ Broadcasts(frames_s, static_frames_s)
            /\ Broadcasts(Max(frames_s, static_frames_s),
                          frames_of("short_harmonic_magnitude")),
          "size short_harmonic">>,
        <<(m.use_noise /\ m.use_noise_env) => has("noise_envelope_magnitude"),
          "KeyError noise_envelope_magnitude">>,
        <<(m.use_noise /\ m.use_noise_env) =>
            rowlen("noise_envelope_magnitude",
                   m.noise_env_size_downsamples) \in {T, 1},
          "size noise_env">>,
        <<(m.use_noise /\ m.use_noise_short_filter) => hop_s > 0,
          "stft hop_length short noise">>,
        <<(m.use_noise /\ m.use_noise_short_filter) =>
            Broadcasts(frames_s, frames_of("short_noise_magnitude")),
          "size short_noise">>,
        <<hop > 0, "stft hop_length">>,
        <<Broadcasts(frames, frames_of("harmonic_magnitude")), "size src_filter">>,
        <<Broadcasts(Max(frames, frames_of("harmonic_magnitude")),
                     static_frames),
          "size static_freq_minphase_wsinc">>,
        <<m.use_noise => Broadcasts(frames, frames_of("noise_magnitude")),
          "size noise_filter">>,
        <<m.use_noise =>
            Broadcasts(Max(frames, frames_of("harmonic_magnitude")),
                       Max(frames, frames_of("noise_magnitude"))),
          "size signal_stft">>,
        <<IstftAccepts(W, hop), "istft">> >>)
      out_frames == Max(frames, frames_of("harmonic_magnitude"))
  IN IF err = "none"
       THEN [status |-> "ok", error |-> err,
             acc_dtype |-> AccDtype(inputs),
             first |-> first,
             f0 |-> f0, cum |-> cum, x |-> x,
             combtooth |-> combtooth,
             excitation |-> excitation,
             noise_tiled |-> IF m.use_noise THEN noise_raw ELSE <<>>,
             noise_t |-> IF m.use_noise THEN noise_t ELSE <<>>,
             frames |-> frames,
             filter_frames |-> frames_of("harmonic_magnitude"),
             src_filter_seq |->
               FilterSequence(m, n, pair_width("harmonic_magnitude",
                                               "harmonic_phase")),
             noise_filter_seq |->
               IF m.use_noise
                 THEN FilterSequence(m, n, pair_width("noise_magnitude",
                                                      "noise_phase"))
                 ELSE <<>>,
             static_frames |-> static_frames,
             signal |->
               [len |-> IstftLength(out_frames, W, hop),
                window |-> m.window,
                harmonic |-> excitation,
                src_filter |-> <<ctrls["harmonic_magnitude"].id,
                                 ctrls["harmonic_phase"].id>>,
                minphase |-> m.static_freq_minphase_wsinc,
                noise |-> IF m.use_noise THEN noise_t ELSE <<>>,
                noise_filter |-> IF m.use_noise
                                   THEN <<ctrls["noise_magnitude"].id,
                                          ctrls["noise_phase"].id>>
                                   ELSE <<>>]]
       ELSE [status |-> "error", error |-> err,
             acc_dtype |-> AccDtype(inputs),
             first |-> first]

(***************************************************************************)
(* The callers of forward.                                                 *)
(***************************************************************************)
Callers == {1, 2, 3}

Idle == [pc |-> "idle"]

NoLoader == [pc |-> "none"]

\* The calls a client can make: batch sizes Bs, frame counts Ns, F0 values
\* (Hz) F0s, initial phases IPs (the same for every batch element; None is
\* the empty tuple), infer flags.
CallInputs(Bs, Ns, F0s, IPs, Infers) ==
  UNION { UNION {
    { [B |-> B, n |-> n, f0_frames |-> f, initial_phase |-> ip, infer |-> i] :
        f \in [1..B -> [1..n -> F0s]],
        ip \in {<<>>} \cup {[b \in 1..B |-> v] : v \in IPs},
        i \in Infers }
    : n \in Ns } : B \in Bs }

\* A forward that applies the noise envelope to the buffer itself.
ModelAfterForwardInPlace(m, inputs, ctrls) ==
  IF m.use_noise /\ m.use_noise_env
    THEN [m EXCEPT !.static_noise_t =
            [i \in 1..Len(m.static_noise_t) |->
               m.static_noise_t[i]
                 * Clamp(ctrls["noise_envelope_magnitude"].rows[1][1])]]
    ELSE m

\* What forward leaves of the instance: it assigns no attribute and writes
\* no buffer (noise_t is a copy made by repeat, combtooth a fresh tensor).
ModelAfterForward(m, inputs, ctrls) == m

\* forward is entered with its arguments bound.
ForwardEnter(c, inputs) ==
  /\ call[c].pc = "idle"
  /\ call' = [call EXCEPT ![c] = [pc |-> "entered", inputs |-> inputs, gen0 |-> gen]]
  /\ UNCHANGED <<model, gen, loader>>

\* forward runs: randn_like draws B * T values from the global generator,
\* the predictor returns pattern p, the signal (or the error) is the result.
ForwardRun(c, p) ==
  /\ call[c].pc = "entered"
  /\ LET inputs == call[c].inputs
         ctrls == PredictorOutput(model, inputs, p)
     IN /\ call' = [call EXCEPT ![c] =
                      [pc |-> "done", inputs |-> inputs, gen0 |-> call[c].gen0,
                       ctrl |-> p,
                       result |-> Forward(model, inputs, gen, ctrls)]]
        /\ gen' = AdvanceGen(gen, inputs.B * inputs.n * model.block_size)
        /\ model' = ModelAfterForward(model, inputs, ctrls)
  /\ UNCHANGED loader

\* the caller takes the result and is free to call again
ForwardReturn(c) ==
  /\ call[c].pc = "done"
  /\ call' = [call EXCEPT ![c] = Idle]
  /\ UNCHANGED <<model, gen, loader>>

\* other code of the process draws from the global generator
OtherDraw ==
  /\ gen' = AdvanceGen(gen, 1)
  /\ UNCHANGED <<model, call, loader>>

(***************************************************************************)
(* Spec: two callers share one instance; other code draws random numbers.  *)
(* SpecConcurrent: the same with nothing but the two forward calls.        *)
(***************************************************************************)
SharedConfigs ==
  { [BaseConfig(8, 4, 2) EXCEPT !.f0_input_variance = v, !.use_f0_offset = o,
                                !.use_harmonic_env = o] :
      v \in {0, 12}, o \in BOOLEAN }

\* one frame, a batch of one: F0 0 or 3 Hz of 8, initial phase None or pi
SharedInputs == CallInputs({1}, {1}, {0, 3}, {8}, {TRUE})

Init ==
  /\ model \in {Construct(cfg) : cfg \in SharedConfigs}
  /\ gen = 0
  /\ call = [c \in Callers |-> Idle]
  /\ loader = NoLoader

NextConcurrent ==
  \E c \in {1, 2} :
    \/ \E inputs \in SharedInputs : ForwardEnter(c, inputs)
    \/ \E p \in {0, 1} : ForwardRun(c, p)
    \/ ForwardReturn(c)

Next == NextConcurrent \/ OtherDraw

Spec == Init /\ [][Next]_vars

SpecConcurrent == Init /\ [][NextConcurrent]_vars

(***************************************************************************)
(* SpecSolo: one caller, calls of every shape (a batch of one with up to   *)
(* MaxFrames frames, a batch of up to MaxBatch elements with one frame),   *)
(* instances built with different flags.                                   *)
(***************************************************************************)
SoloConfigs ==
  { BaseConfig(8, 4, 2),
    [BaseConfig(8, 4, 2) EXCEPT !.f0_input_variance = 12],
    [BaseConfig(8, 4, 2) EXCEPT !.use_f0_offset = TRUE,
                                !.f0_offset_size_downsamples = 2,
                                !.use_harmonic_env = TRUE],
    [BaseConfig(8, 4, 2) EXCEPT !.f0_input_variance = 12,
                                !.no_use_noise = TRUE,
                                !.use_f0_offset = TRUE,
                                !.use_harmonic_env = TRUE,
                                !.harmonic_env_size_downsamples = 2] }

\* F0 from 0 to 3 Hz of 8, initial phase None, pi / 2 or pi
SoloInputs ==
       CallInputs({1}, 1..MaxFrames, 0..3, {4, 8}, BOOLEAN)
  \cup CallInputs(2..MaxBatch, {1}, 0..3, {4, 8}, BOOLEAN)

InitSolo ==
  /\ model \in {Construct(cfg) : cfg \in SoloConfigs}
  /\ gen = 0
  /\ call = [c \in Callers |-> Idle]
  /\ loader = NoLoader

NextSolo ==
  \/ \E inputs \in SoloInputs : ForwardEnter(1, inputs)
  \/ \E p \in CtrlPatterns : ForwardRun(1, p)
  \/ ForwardReturn(1)

SpecSolo == InitSolo /\ [][NextSolo]_vars

\* a call that has returned a signal
Returned(c) == call[c].pc = "done" /\ call[c].result.status = "ok"

(***************************************************************************)
(* Properties of one call.                                                 *)
(***************************************************************************)
\* every per-sample F0 of batch element b is in [0, sampling_rate / 2)
F0InRange(r, b) ==
  \A t \in 1..Len(r.f0[b]) : 0 <= r.f0[b][t] /\ r.f0[b][t] < model.sampling_rate

\* the wrap points (phase k + 1/2) are the odd multiples of sampling_rate ticks
IsWrapPoint(h) == h % CycleTicks(model) = model.sampling_rate

C4_WrappedPhaseRange ==
  \A c \in Callers :
    Returned(c) =>
      \A b \in 1..call[c].inputs.B :
        /\ \A t \in 1..Len(call[c].result.x[b]) :
             /\ -model.sampling_rate <= call[c].result.x[b][t]
             /\ call[c].result.x[b][t] < model.sampling_rate
        /\ \A t \in 1..Len(call[c].result.first.x[b]) :
             /\ -model.sampling_rate <= call[c].result.first.x[b][t]
             /\ call[c].result.first.x[b][t] < model.sampling_rate

\* the static state: buffers, filters, window, split map, flags
StaticState(m) ==
  <<m.static_noise_t, m.static_add_noise_t, m.static_freq_minphase_wsinc,
    m.static_freq_minphase_wsinc_env, m.window, m.split_map,
    m.use_noise, m.use_noise_env, m.use_harmonic_env, m.use_add_noise_env,
    m.use_f0_offset, m.add_noise, m.use_phase_offset, m.use_short_filter,
    m.use_noise_short_filter, m.f0_input_variance, m.noise_seed,
    m.sampling_rate, m.block_size, m.win_length>>

\* C8: no step of a forward call changes the static state of the instance.
C8_StaticStateUnchanged == [][StaticState(model') = StaticState(model)]_vars

\* a call that tiled the noise buffer and applied the envelope -1 has returned
C8_Witness ==
  /\ Returned(1)
  /\ model.use_noise /\ model.use_noise_env
  /\ call[1].ctrl = 2
  /\ call[1].result.noise_t # <<>>
  /\ \E i \in 1..Len(call[1].result.noise_t[1]) :
       /\ model.static_noise_t[i] # 0
       /\ call[1].result.noise_t[1][i] = -model.static_noise_t[i]

(***************************************************************************)
(* Properties of two calls on one instance.                                *)
(***************************************************************************)
\* C1: two calls with identical inputs (F0 frames, initial phase, infer
\* flag) for which the predictor returned the same have identical results:
\* the same per-sample F0, wrapped phase, combtooth and output signal,
\* whatever the F0 jitter the instance was built with and whatever else has
\* drawn random numbers in between.
C1_Deterministic ==
  \A c1, c2 \in Callers :
    ( /\ call[c1].pc = "done" /\ call[c2].pc = "done"
      /\ call[c1].inputs = call[c2].inputs
      /\ call[c1].ctrl = call[c2].ctrl )
    => call[c1].result = call[c2].result

\* C9: a call that overlaps another call on the same instance returns what
\* it would have returned running alone from the moment it was entered.
C9_ConcurrentCallsIndependent ==
  \A c \in Callers :
    call[c].pc = "done" =>
      call[c].result =
        Forward(model, call[c].inputs, call[c].gen0,
                PredictorOutput(model, call[c].inputs, call[c].ctrl))

(***************************************************************************)
(* SpecBatch: two callers make batched calls on an instance without F0     *)
(* jitter, so that calls agreeing on one batch element can be compared.    *)
(***************************************************************************)
\* batches of one frame per element, F0 0, 1 or 2 Hz of 6
BatchInputs == CallInputs(2..MaxBatch, {1}, {0, 1, 2}, {}, {TRUE})

InitBatch ==
  /\ model = Construct(BaseConfig(6, 4, 2))
  /\ gen = 0
  /\ call = [c \in Callers |-> Idle]
  /\ loader = NoLoader

NextBatch ==
  \E c \in {1, 2} :
    \/ \E inputs \in BatchInputs : ForwardEnter(c, inputs)
    \/ \E p \in {0, 1} : ForwardRun(c, p)
    \/ ForwardReturn(c)

SpecBatch == InitBatch /\ [][NextBatch]_vars

\* C2: two batched calls that agree on batch element b (its F0 frames and
\* initial phase, the controls, the shape) give element b the same combtooth
\* at every sample, the last included, whatever the other elements are.
C2_BatchIndependent ==
  \A c1, c2 \in Callers :
    ( /\ Returned(c1) /\ Returned(c2)
      /\ call[c1].inputs.B = call[c2].inputs.B
      /\ call[c1].inputs.n = call[c2].inputs.n
      /\ call[c1].inputs.infer = call[c2].inputs.infer
      /\ call[c1].ctrl = call[c2].ctrl )
    => \A b \in 1..call[c1].inputs.B :
         ( /\ call[c1].inputs.f0_frames[b] = call[c2].inputs.f0_frames[b]
           /\ InitialPhaseTicks(call[c1].inputs, b)
                = InitialPhaseTicks(call[c2].inputs, b) )
         => /\ call[c1].result.combtooth[b] = call[c2].result.combtooth[b]
            /\ call[c1].result.excitation[b] = call[c2].result.excitation[b]

(***************************************************************************)
(* SpecChunk: a client synthesises a sequence of frames once in one call   *)
(* (caller 1) and once in two chunks (callers 2 and 3), handing the phase  *)
(* of the last sample of the first chunk to the second as initial_phase.   *)
(* The instance has the F0 jitter and the F0 offset off.                   *)
(***************************************************************************)
ChunkSequences == CallInputs({1}, 2..MaxChunkFrames, 0..3, {}, {TRUE})

\* frames lo..hi of the sequence of a call, as the F0 frames of a call
FramesOf(inputs, lo, hi) == [b \in 1..inputs.B |-> SubSeq(inputs.f0_frames[b], lo, hi)]

\* x[:, -1] * 2 pi of a result: the initial_phase of the next chunk
EndingPhase(result) == [b \in 1..Len(result.x) |-> Last(result.x[b])]

InitChunk ==
  /\ model = Construct(BaseConfig(8, 4, 2))
  /\ gen = 0
  /\ call = [c \in Callers |-> Idle]
  /\ loader = NoLoader

\* the contiguous call
WholeEnter(inputs) ==
  /\ call[2].pc = "idle" /\ call[3].pc = "idle"
  /\ ForwardEnter(1, inputs)

\* the first chunk: the first k frames
FirstChunkEnter(k) ==
  /\ call[1].pc # "idle" /\ call[3].pc = "idle"
  /\ k < call[1].inputs.n
  /\ ForwardEnter(2, [call[1].inputs EXCEPT !.n = k,
                        !.f0_frames = FramesOf(call[1].inputs, 1, k)])

\* the second chunk: the other frames, initial_phase the ending phase of the first
SecondChunkEnter ==
  /\ call[1].pc # "idle" /\ Returned(2)
  /\ ForwardEnter(3, [call[1].inputs EXCEPT
                        !.n = call[1].inputs.n - call[2].inputs.n,
                        !.f0_frames = FramesOf(call[1].inputs, call[2].inputs.n + 1,
                                               call[1].inputs.n),
                        !.initial_phase = EndingPhase(call[2].result)])

\* the client has the three signals and starts over
ChunksDone ==
  /\ \A c \in Callers : call[c].pc = "done"
  /\ call' = [c \in Callers |-> Idle]
  /\ UNCHANGED <<model, gen, loader>>

NextChunk ==
  \/ \E inputs \in ChunkSequences : WholeEnter(inputs)
  \/ \E k \in 1..(MaxChunkFrames - 1) : FirstChunkEnter(k)
  \/ SecondChunkEnter
  \/ \E c \in Callers, p \in {0, 1} : ForwardRun(c, p)
  \/ ChunksDone

SpecChunk == InitChunk /\ [][NextChunk]_vars

\* the three calls of a chunked synthesis have returned
Chunked ==
  /\ \A c \in Callers : Returned(c)
  /\ call[2].inputs.f0_frames = FramesOf(call[1].inputs, 1, call[2].inputs.n)
  /\ call[3].inputs.f0_frames
       = FramesOf(call[1].inputs, call[2].inputs.n + 1, call[1].inputs.n)
  /\ call[2].inputs.initial_phase = call[1].inputs.initial_phase
  /\ call[3].inputs.initial_phase = EndingPhase(call[2].result)

\* C5: with the ending phase of the first chunk handed to the second, the
\* wrapped phase at every sample of the second chunk is the wrapped phase of
\* the contiguous call at the corresponding sample.
C5_PhaseHandOff ==
  Chunked =>
    \A b \in 1..call[1].inputs.B :
      \A t \in 1..Len(call[3].result.x[b]) :
        call[3].result.x[b][t]
          = call[1].result.x[b][Len(call[2].result.x[b]) + t]

(***************************************************************************)
(* SpecShape: one caller, calls of 1 to MaxShapeFrames frames on instances *)
(* of different block_size and win_length; the static noise has            *)
(* win_length * 127 samples, and the calls are shorter than it, as long,   *)
(* longer, and twice as long.                                              *)
(***************************************************************************)
\* <<sampling_rate, block_size, win_length>>
ShapeConfigs ==
  { BaseConfig(8, 4, 4), BaseConfig(8, 8, 4), BaseConfig(8, 4, 3),
    BaseConfig(8, 16, 4) }

ShapeInputs == CallInputs({1}, 1..MaxShapeFrames, {2}, {}, {TRUE})

InitShape ==
  /\ model \in {Construct(cfg) : cfg \in ShapeConfigs}
  /\ gen = 0
  /\ call = [c \in Callers |-> Idle]
  /\ loader = NoLoader

NextShape ==
  \/ \E inputs \in ShapeInputs : ForwardEnter(1, inputs)
  \/ ForwardRun(1, 0)
  \/ ForwardReturn(1)

SpecShape == InitShape /\ [][NextShape]_vars

\* the sample count of a call
Samples(c) == call[c].inputs.n * model.block_size

\* a call with n frames returns n * block_size samples from 4 n + 1 frames
LengthsRight(c) ==
  /\ call[c].result.status = "ok"
  /\ \A b \in 1..call[c].inputs.B :
       /\ Len(call[c].result.combtooth[b]) = Samples(c)
       /\ Len(call[c].result.excitation[b]) = Samples(c)
  /\ call[c].result.frames = 4 * call[c].inputs.n + 1
  /\ call[c].result.filter_frames = 4 * call[c].inputs.n + 1
  /\ call[c].result.signal.len = Samples(c)

\* C6 as stated: for every frame count and every block_size divisible by 4
\* forward returns n * block_size samples, the STFT having 4 n + 1 frames.
C6_OutputLengthEveryConfig ==
  \A c \in Callers :
    (call[c].pc = "done" /\ model.block_size % 4 = 0) => LengthsRight(c)

\* C6, amended: for every frame count, every block_size divisible by 4 and
\* every even win_length greater than block_size / 4, forward returns
\* n * block_size samples, the STFT having 4 n + 1 frames.
C6_OutputLength ==
  \A c \in Callers :
    ( /\ call[c].pc = "done"
      /\ model.block_size % 4 = 0
      /\ model.win_length % 2 = 0
      /\ model.block_size \div 4 < model.win_length )
    => LengthsRight(c)

\* a call of more than one frame with a hop of two samples has returned
C6_Witness ==
  /\ Returned(1)
  /\ model.block_size = 8 /\ model.win_length = 4
  /\ call[1].inputs.n = 3
  /\ call[1].result.signal.len = 24

\* C7: the noise excitation of a call has T samples for every batch element
\* and sample i is static_noise_t[i mod N], N = win_length * 127.
C7_NoiseTiling ==
  \A c \in Callers :
    (Returned(c) /\ model.use_noise) =>
      LET N == model.win_length * NoiseBufferFactor IN
      /\ Len(model.static_noise_t) = N
      /\ \A b \in 1..call[c].inputs.B :
           /\ Len(call[c].result.noise_tiled[b]) = Samples(c)
           /\ \A i \in 0..(Samples(c) - 1) :
                call[c].result.noise_tiled[b][i + 1] = model.static_noise_t[(i % N) + 1]

\* a call of exactly twice the length of the noise buffer has returned
C7_Witness ==
  /\ Returned(1)
  /\ model.use_noise
  /\ Samples(1) = 2 * Len(model.static_noise_t)
  /\ Len(call[1].result.noise_tiled[1]) = Samples(1)

(***************************************************************************)
(* SpecLoad: the two loaders, load_model and load_onnx_model, on model     *)
(* directories with different config.yaml, checkpoint and spk_info.npz.    *)
(***************************************************************************)
SupportedTypes == {"CombSubMinimumNoisedPhase", "NMPSFHiFi"}

\* the model type tags a config.yaml can carry
ModelTypes == SupportedTypes \cup {"CombSub", "Sins"}

\* A model directory: config.yaml (the type tag, use_speaker_embed and the
\* constructor arguments), whether spk_info.npz is there, and the seed of
\* the static noise saved in the checkpoint (-1: the checkpoint has none).
ModelDirs ==
  { [type |-> ty, use_speaker_embed |-> e, cfg |-> cfg, has_spk_info |-> f,
     ckpt_noise_seed |-> k] :
      ty \in ModelTypes, e \in BOOLEAN, cfg \in SharedConfigs, f \in BOOLEAN,
      k \in {-1, 289, 7} }

\* the default of nsf_hifigan_in, the width of nsf_param
NsfHifiganIn == 128

\* split_map of NMPSFHiFi.__init__
SplitMapNMPSFHiFi(cfg) ==
  LET pfs == PredFilterSize(cfg.win_length)
      keys == {"harmonic_magnitude", "harmonic_phase", "nsf_param"}
              \cup (IF cfg.use_f0_offset THEN {"f0_offset"} ELSE {})
              \cup (IF cfg.use_noise_env THEN {"noise_envelope_magnitude"} ELSE {})
              \cup (IF cfg.use_harmonic_env
                      THEN {"harmonic_envelope_magnitude"} ELSE {})
  IN [key \in keys |->
        CASE key = "nsf_param" -> NsfHifiganIn
          [] key = "f0_offset" -> cfg.block_size \div cfg.f0_offset_size_downsamples
          [] key = "noise_envelope_magnitude"
               -> cfg.block_size \div cfg.noise_env_size_downsamples
          [] key = "harmonic_envelope_magnitude"
               -> cfg.block_size \div cfg.harmonic_env_size_downsamples
          [] OTHER -> pfs]

\* NMPSFHiFi.__init__ builds the same buffers, with its own split_map
ConstructNMPSFHiFi(cfg) ==
  [Construct(cfg) EXCEPT !.type = "NMPSFHiFi",
                         !.split_map = SplitMapNMPSFHiFi(cfg)]

\* model.load_state_dict(ckpt, strict = False): a buffer the checkpoint has
\* replaces the one built by the constructor
LoadStateDict(m, dir) ==
  IF dir.ckpt_noise_seed = -1 THEN m
  ELSE [m EXCEPT !.static_noise_t =
          RandNoise(dir.ckpt_noise_seed, 0, Len(m.static_noise_t))]

\* A loader that takes the speaker table whenever the file is there.
SpkInfoWhenPresent(dir) ==
  IF dir.has_spk_info THEN "spk_info.npz" ELSE "None"

\* the speaker table: loaded when the model uses speaker embedding and the
\* file is there, None (with a warning) when it is not
SpkInfo(dir) ==
  IF dir.use_speaker_embed /\ dir.has_spk_info THEN "spk_info.npz" ELSE "None"

SpkInfoReads(dir) ==
  IF dir.use_speaker_embed /\ dir.has_spk_info THEN <<"spk_info.npz">> ELSE <<>>

\* load_model, lines 17-21: config.yaml is read
LoadModelConfig(dir) ==
  /\ loader.pc = "none"
  /\ loader' = [pc |-> "config", fn |-> "load_model", dir |-> dir,
                reads |-> <<"config.yaml">>]
  /\ UNCHANGED <<model, gen, call>>

\* load_model, lines 24-85: the model of the configured type is built, or
\* ValueError is raised for a type that is not known
LoadModelBuild ==
  /\ loader.pc = "config" /\ loader.fn = "load_model"
  /\ loader' =
       IF loader.dir.type = "CombSubMinimumNoisedPhase"
         THEN [pc |-> "built", fn |-> loader.fn, dir |-> loader.dir,
               reads |-> loader.reads, built |-> Construct(loader.dir.cfg)]
       ELSE IF loader.dir.type = "NMPSFHiFi"
         THEN [pc |-> "built", fn |-> loader.fn, dir |-> loader.dir,
               reads |-> loader.reads, built |-> ConstructNMPSFHiFi(loader.dir.cfg)]
       ELSE [pc |-> "raised", fn |-> loader.fn, dir |-> loader.dir,
             reads |-> loader.reads,
             error |-> [of |-> "ValueError", names |-> loader.dir.type]]
  /\ UNCHANGED <<model, gen, call>>

\* load_model, lines 87-95: the checkpoint is read and loaded into the model
LoadModelCheckpoint ==
  /\ loader.pc = "built"
  /\ loader' = [loader EXCEPT !.pc = "loaded",
                  !.reads = Append(loader.reads, "checkpoint"),
                  !.built = LoadStateDict(loader.built, loader.dir)]
  /\ UNCHANGED <<model, gen, call>>

\* load_model, lines 97-107: the speaker table, then model, args and
\* spk_info are returned
LoadModelReturn ==
  /\ loader.pc = "loaded" /\ loader.fn = "load_model"
  /\ loader' = [pc |-> "returned", fn |-> loader.fn, dir |-> loader.dir,
                reads |-> loader.reads \o SpkInfoReads(loader.dir),
                result |-> [model |-> loader.built, spk_info |-> SpkInfo(loader.dir)]]
  /\ UNCHANGED <<model, gen, call>>

\* load_onnx_model, lines 114-117: config.yaml is read
LoadOnnxConfig(dir) ==
  /\ loader.pc = "none"
  /\ loader' = [pc |-> "config", fn |-> "load_onnx_model", dir |-> dir,
                reads |-> <<"config.yaml">>]
  /\ UNCHANGED <<model, gen, call>>

\* load_onnx_model, lines 119-124: the session is created from the model
\* file, whatever the configured type
LoadOnnxSession ==
  /\ loader.pc = "config" /\ loader.fn = "load_onnx_model"
  /\ loader' = [pc |-> "loaded", fn |-> loader.fn, dir |-> loader.dir,
                reads |-> Append(loader.reads, "model.onnx"),
                built |-> [type |-> "InferenceSession"]]
  /\ UNCHANGED <<model, gen, call>>

\* load_onnx_model, lines 126-136: the speaker table, then the session, args
\* and spk_info are returned
LoadOnnxReturn ==
  /\ loader.pc = "loaded" /\ loader.fn = "load_onnx_model"
  /\ loader' = [pc |-> "returned", fn |-> loader.fn, dir |-> loader.dir,
                reads |-> loader.reads \o SpkInfoReads(loader.dir),
                result |-> [model |-> loader.built, spk_info |-> SpkInfo(loader.dir)]]
  /\ UNCHANGED <<model, gen, call>>

\* the caller has the result, or the exception, of the loader
LoaderLeave ==
  /\ loader.pc \in {"returned", "raised"}
  /\ loader' = NoLoader
  /\ UNCHANGED <<model, gen, call>>

NextLoad ==
  \/ \E dir \in ModelDirs : LoadModelConfig(dir)
  \/ LoadModelBuild
  \/ LoadModelCheckpoint
  \/ LoadModelReturn
  \/ \E dir \in ModelDirs : LoadOnnxConfig(dir)
  \/ LoadOnnxSession
  \/ LoadOnnxReturn
  \/ LoaderLeave

SpecLoad == Init /\ [][NextLoad]_vars

\* C10: a loader given a config whose model type is neither
\* CombSubMinimumNoisedPhase nor NMPSFHiFi reads nothing after config.yaml
\* and ends raising an error that names the type; it never has a model or a
\* session and never returns.
C10_UnknownTypeFatal ==
  (loader.pc # "none" /\ loader.dir.type \notin SupportedTypes) =>
    /\ loader.pc \in {"config", "raised"}
    /\ loader.reads = <<"config.yaml">>
    /\ loader.pc = "raised" => loader.error.names = loader.dir.type

\* C11: a loader given a configuration with use_speaker_embed and a model
\* directory without spk_info.npz does not return: it ends in an error.
C11_MissingSpeakerDataFatal ==
  ( /\ loader.pc # "none"
    /\ loader.dir.use_speaker_embed
    /\ ~loader.dir.has_spk_info )
  => loader.pc # "returned"

\* C12: load_model given a configuration without use_speaker_embed (and a
\* supported type) does not raise, and when it returns, spk_info is None and
\* spk_info.npz is not among the files read, whether the file is there or not.
C12_SpeakerDataNotRequired ==
  ( /\ loader.pc # "none"
    /\ loader.fn = "load_model"
    /\ loader.dir.type \in SupportedTypes
    /\ ~loader.dir.use_speaker_embed )
  => /\ loader.pc # "raised"
     /\ loader.pc = "returned" =>
          /\ loader.result.spk_info = "None"
          /\ \A i \in 1..Len(loader.reads) : loader.reads[i] # "spk_info.npz"
          /\ loader.result.model.type \in SupportedTypes

\* load_model has returned for a directory that has spk_info.npz and a
\* configuration that does not use it
C12_Witness ==
  /\ loader.pc = "returned"
  /\ loader.fn = "load_model"
  /\ ~loader.dir.use_speaker_embed
  /\ loader.dir.has_spk_info
  /\ loader.result.spk_info = "None"

(***************************************************************************)
(* SpecFlags: instances built with every combination of the nine flags,    *)
(* one caller.  (With win_length 2 the short window has no hop: forward    *)
(* raises on the instances with a short filter.)                           *)
(***************************************************************************)
FlagConfigs ==
  { [BaseConfig(8, 4, 2) EXCEPT
       !.no_use_noise = f[1], !.use_noise_env = f[2], !.use_harmonic_env = f[3],
       !.use_f0_offset = f[4], !.add_noise = f[5], !.use_add_noise_env = f[6],
       !.use_phase_offset = f[7], !.use_short_filter = f[8],
       !.use_noise_short_filter = f[9]] : f \in [1..9 -> BOOLEAN] }

FlagInputs == CallInputs({1}, 1..MaxFrames, {3}, {}, {TRUE})

InitFlags ==
  /\ model \in {Construct(cfg) : cfg \in FlagConfigs}
  /\ gen = 0
  /\ call = [c \in Callers |-> Idle]
  /\ loader = NoLoader

\* the feature a control key belongs to is enabled
KeyEnabled(m, key) ==
  CASE key = "noise_envelope_magnitude" -> m.use_noise /\ m.use_noise_env
    [] key = "harmonic_envelope_magnitude" -> m.use_harmonic_env
    [] key = "f0_offset" -> m.use_f0_offset
    [] key \in {"add_noise_magnitude", "add_noise_phase"} -> m.add_noise
    [] key = "add_noise_envelope_magnitude" -> m.add_noise /\ m.use_add_noise_env
    [] key = "phase_offset" -> m.use_phase_offset
    [] key \in {"short_harmonic_magnitude", "short_harmonic_phase"}
         -> m.use_short_filter
    [] key \in {"short_noise_magnitude", "short_noise_phase"}
         -> m.use_noise /\ m.use_noise_short_filter
    [] key \in {"noise_magnitude", "noise_phase"} -> m.use_noise
    [] OTHER -> TRUE

\* C13: split_map has a key only if the feature the key belongs to is
\* enabled; noise_magnitude and noise_phase only when noise is enabled.
C13_SchemaFollowsFlags ==
  \A key \in DOMAIN model.split_map : KeyEnabled(model, key)

FullBandKeys ==
  {"harmonic_magnitude", "harmonic_phase", "noise_magnitude", "noise_phase",
   "short_harmonic_magnitude", "short_harmonic_phase",
   "short_noise_magnitude", "short_noise_phase",
   "add_noise_magnitude", "add_noise_phase"}

\* block_size // the downsample factor of an envelope or f0_offset key
EnvelopeWidth(m, key) ==
  CASE key = "harmonic_envelope_magnitude"
         -> m.block_size \div m.harmonic_env_size_downsamples
    [] key = "f0_offset" -> m.block_size \div m.f0_offset_size_downsamples
    [] OTHER -> m.block_size \div m.noise_env_size_downsamples

\* C14 as stated: every full-band filter key has width pred_filter_size and
\* every envelope / f0_offset key has width block_size / its downsample.
C14_WidthsAsStated ==
  \A key \in DOMAIN model.split_map :
    model.split_map[key] =
      IF key \in FullBandKeys \cup {"phase_offset"}
        THEN model.win_length \div 2 + 1
        ELSE EnvelopeWidth(model, key)

\* C14, amended: the harmonic, noise and short filter keys have width
\* 4 * pred_filter_size (four filters per frame, one per STFT hop), the
\* add_noise filter keys and phase_offset have width pred_filter_size, every
\* envelope / f0_offset key has width block_size // its downsample; and the
\* filters forward reshapes from the predicted width are 4 n, 4 n + 1 with
\* the last one appended.
C14_ControlWidths ==
  /\ model.pred_filter_size = model.win_length \div 2 + 1
  /\ \A key \in DOMAIN model.split_map :
       model.split_map[key] =
         IF key \in {"add_noise_magnitude", "add_noise_phase", "phase_offset"}
           THEN model.pred_filter_size
         ELSE IF key \in FullBandKeys THEN 4 * model.pred_filter_size
         ELSE EnvelopeWidth(model, key)
  /\ \A c \in Callers :
       Returned(c) => call[c].result.filter_frames = 4 * call[c].inputs.n + 1

\* a call has returned from an instance with the additive noise, the phase
\* offset, the F0 offset and the envelopes in its schema
C14_Witness ==
  /\ Returned(1)
  /\ call[1].inputs.n = 2
  /\ {"add_noise_magnitude", "add_noise_envelope_magnitude",
      "noise_envelope_magnitude", "harmonic_envelope_magnitude", "f0_offset",
      "phase_offset"} \subseteq DOMAIN model.split_map
  /\ model.split_map["add_noise_magnitude"] = 2
  /\ model.split_map["harmonic_magnitude"] = 8
  /\ call[1].result.filter_frames = 9

NextFlags ==
  \/ \E inputs \in FlagInputs : ForwardEnter(1, inputs)
  \/ \E p \in CtrlPatterns : ForwardRun(1, p)
  \/ ForwardReturn(1)

SpecFlags == InitFlags /\ [][NextFlags]_vars

(***************************************************************************)
(* A predictor that does not honour split_map: forward's handling of a     *)
(* control bundle with a key missing or of another width (lines 416-556).  *)
(***************************************************************************)
FaultKinds == {"missing", "wide", "one"}

NoFault == [kind |-> "none", key |-> "none"]

\* The faults a bundle for instance m can have: a key of split_map absent,
\* one value per frame too many, or a single value per frame.
Faults(m) ==
  {NoFault} \cup
  { [kind |-> k, key |-> key] : k \in {"missing", "wide"}, key \in DOMAIN m.split_map }
  \cup { [kind |-> "one", key |-> key] :
           key \in {q \in DOMAIN m.split_map : m.split_map[q] # 1} }

\* The bundle unit2ctrl returns (line 417) when it has the fault.
FaultyPredictorOutput(m, inputs, p, fault) ==
  LET good == PredictorOutput(m, inputs, p)
      w == IF fault.kind = "wide" THEN m.split_map[fault.key] + 1 ELSE 1
  IN CASE fault.kind = "none" -> good
       [] fault.kind = "missing" ->
            [key \in (DOMAIN good) \ {fault.key} |-> good[key]]
       [] OTHER ->
            [good EXCEPT ![fault.key] =
               IF fault.key \in RowKeys
                 THEN [width |-> w,
                       rows |-> [b \in 1..inputs.B |->
                                   [i \in 1..(inputs.n * w) |->
                                      PatternValue(fault.key, p, i)]]]
                 ELSE [width |-> w, id |-> p]]

\* The keys an error message carries: a KeyError carries the key looked up,
\* the RuntimeErrors of reshape, of broadcasting and of stft/istft carry
\* shapes only.
ErrorKeys(error) ==
  CASE error = "KeyError f0_offset" -> {"f0_offset"}
    [] error = "KeyError harmonic" -> {"harmonic_magnitude", "harmonic_phase"}
    [] error = "KeyError noise" -> {"noise_magnitude", "noise_phase"}
    [] error = "KeyError add_noise" -> {"add_noise_magnitude", "add_noise_phase"}
    [] error = "KeyError short_harmonic" ->
         {"short_harmonic_magnitude", "short_harmonic_phase"}
    [] error = "KeyError short_noise" ->
         {"short_noise_magnitude", "short_noise_phase"}
    [] error = "KeyError harmonic_envelope_magnitude" ->
         {"harmonic_envelope_magnitude"}
    [] error = "KeyError noise_envelope_magnitude" ->
         {"noise_envelope_magnitude"}
    [] OTHER -> {}

\* The errors raised at line 474 or later, when the combtooth excitation of
\* line 469 has been computed (those of line 530 or later also after the
\* STFT of the excitation).
RaisedAfterExcitation(error) ==
  error \in {"KeyError harmonic_envelope_magnitude", "size harmonic_env",
             "stft hop_length short", "size short_harmonic",
             "KeyError noise_envelope_magnitude", "size noise_env",
             "stft hop_length short noise", "size short_noise",
             "stft hop_length", "size src_filter",
             "size static_freq_minphase_wsinc", "size noise_filter",
             "size signal_stft", "istft"}

\* forward runs with a predictor that has the fault.
ForwardRunFaulty(c, p, fault) ==
  /\ call[c].pc = "entered"
  /\ LET inputs == call[c].inputs
         ctrls == FaultyPredictorOutput(model, inputs, p, fault)
     IN /\ call' = [call EXCEPT ![c] =
                      [pc |-> "done", inputs |-> inputs, gen0 |-> call[c].gen0,
                       ctrl |-> p, fault |-> fault,
                       result |-> Forward(model, inputs, gen, ctrls)]]
        /\ gen' = AdvanceGen(gen, inputs.B * inputs.n * model.block_size)
        /\ model' = model
  /\ UNCHANGED loader

FaultConfigs ==
  { [BaseConfig(8, 4, 2) EXCEPT
       !.use_harmonic_env = f, !.use_f0_offset = f,
       !.add_noise = f, !.use_phase_offset = f] : f \in BOOLEAN }

FaultInputs == CallInputs({1}, 1..MaxFrames, {3}, {}, {TRUE})

InitFault ==
  /\ model \in {Construct(cfg) : cfg \in FaultConfigs}
  /\ gen = 0
  /\ call = [c \in Callers |-> Idle]
  /\ loader = NoLoader

NextFault ==
  \/ \E inputs \in FaultInputs : ForwardEnter(1, inputs)
  \/ \E p \in CtrlPatterns : \E fault \in Faults(model) :
       ForwardRunFaulty(1, p, fault)
  \/ ForwardReturn(1)

SpecFault == InitFault /\ [][NextFault]_vars

\* C15: a call whose control bundle lacks a key the enabled configuration
\* requires, or holds it with another width, ends in an error that names
\* the key, raised before the excitation or any spectrum is computed; it
\* never returns a waveform.
C15_FailsFast ==
  \A c \in Callers :
    ( /\ call[c].pc = "done"
      /\ call[c].fault.kind \in FaultKinds
      /\ KeyEnabled(model, call[c].fault.key) )
    => /\ call[c].result.status = "error"
       /\ call[c].fault.key \in ErrorKeys(call[c].result.error)
       /\ ~RaisedAfterExcitation(call[c].result.error)

(***************************************************************************)
(* The filter sequences of the long-window path (lines 446-452, 522-541).  *)
(***************************************************************************)
\* the filter sequence of a call with n frames: 4 n predicted filters in
\* order and the last of them once more, as many frames as the STFT has and
\* as the static filter is repeated to
ClampExtended(c) ==
  LET n == call[c].inputs.n
      T == n * model.block_size
      hop == model.block_size \div 4
      seq == FilterSequence(model, n, model.split_map["harmonic_magnitude"])
      nseq == FilterSequence(model, n, model.split_map["noise_magnitude"])
  IN /\ Len(seq) = StftFrames(T, model.win_length, hop)
     /\ Len(seq) = 4 * n + 1
     /\ \A j \in 1..(4 * n) : seq[j] = j
     /\ seq[4 * n + 1] = 4 * n
     /\ nseq = seq
     /\ StaticFrames(T, hop) = Len(seq)
     /\ Returned(c) =>
          /\ call[c].result.src_filter_seq = seq
          /\ call[c].result.noise_filter_seq = nseq
          /\ call[c].result.frames = Len(seq)
          /\ call[c].result.static_frames = Len(seq)

\* C16 as stated: for every frame count and every block_size divisible by
\* 4 the filter sequence has as many frames as the centred STFT (4 n + 1),
\* the first 4 n being the predicted filters in order and the last a copy of
\* the last predicted one, the static filter repeated to the same count.
C16_ClampExtendEveryConfig ==
  \A c \in Callers :
    (call[c].pc = "done" /\ model.block_size % 4 = 0) => ClampExtended(c)

\* C16, amended: the same for every even win_length.
C16_ClampExtend ==
  \A c \in Callers :
    ( /\ call[c].pc = "done"
      /\ model.block_size % 4 = 0
      /\ model.win_length % 2 = 0 )
    => ClampExtended(c)

\* a call of three frames has returned with thirteen filter frames, the
\* last two of them the twelfth predicted filter
C16_Witness ==
  /\ Returned(1)
  /\ model.block_size = 8 /\ model.win_length = 4
  /\ call[1].inputs.n = 3
  /\ Len(call[1].result.src_filter_seq) = 13
  /\ call[1].result.src_filter_seq[12] = 12
  /\ call[1].result.src_filter_seq[13] = 12
  /\ call[1].result.frames = 13

(***************************************************************************)
(* The short-window pass (lines 458-464, 483-495, 509-520): a window of    *)
(* 4 * block_size samples, so that win_length // 4 // 4 is the hop of the   *)
(* long pass and the short filters have as many frames as the short STFT.  *)
(***************************************************************************)
ShortKeys ==
  {"short_harmonic_magnitude", "short_harmonic_phase",
   "short_noise_magnitude", "short_noise_phase"}

\* The bundle of a predictor whose short_* tensors have content ps and
\* whose other tensors have content p.
ShortPredictorOutput(m, inputs, p, ps) ==
  LET base == PredictorOutput(m, inputs, p)
  IN [key \in DOMAIN base |->
        IF key \in ShortKeys THEN [base[key] EXCEPT !.id = ps] ELSE base[key]]

\* forward runs with that predictor
ForwardRunShort(c, p, ps) ==
  /\ call[c].pc = "entered"
  /\ LET inputs == call[c].inputs
         ctrls == ShortPredictorOutput(model, inputs, p, ps)
     IN /\ call' = [call EXCEPT ![c] =
                      [pc |-> "done", inputs |-> inputs, gen0 |-> call[c].gen0,
                       ctrl |-> p, ctrl_short |-> ps,
                       result |-> Forward(model, inputs, gen, ctrls)]]
        /\ gen' = AdvanceGen(gen, inputs.B * inputs.n * model.block_size)
        /\ model' = ModelAfterForward(model, inputs, ctrls)
  /\ UNCHANGED loader

ShortConfigs ==
  { [BaseConfig(8, 4, 16) EXCEPT
       !.use_short_filter = h, !.use_noise_short_filter = s] :
      h \in BOOLEAN, s \in BOOLEAN }

ShortInputs == CallInputs({1}, {1}, {3}, {}, {TRUE})

InitShort ==
  /\ model \in {Construct(cfg) : cfg \in ShortConfigs}
  /\ gen = 0
  /\ call = [c \in Callers |-> Idle]
  /\ loader = NoLoader

NextShort ==
  \/ \E c \in {1, 2} : \E inputs \in ShortInputs : ForwardEnter(c, inputs)
  \/ \E c \in {1, 2} : \E ps \in CtrlPatterns : ForwardRunShort(c, 0, ps)
  \/ \E c \in {1, 2} : ForwardReturn(c)

SpecShort == InitShort /\ [][NextShort]_vars

\* C17: with use_short_filter (resp. use_noise_short_filter) enabled the
\* short-window filtered spectrum is part of what is inverse-transformed:
\* two calls with the same inputs that differ only in the short_harmonic_*
\* (resp. short_noise_*) control values return different signals.
C17_ShortFilterReachesOutput ==
  \A c \in {1, 2} : \A d \in {1, 2} :
    ( /\ Returned(c) /\ Returned(d)
      /\ model.use_short_filter \/ (model.use_noise /\ model.use_noise_short_filter)
      /\ model.f0_input_variance = 0
      /\ call[c].inputs = call[d].inputs
      /\ call[c].ctrl = call[d].ctrl
      /\ call[c].ctrl_short # call[d].ctrl_short )
    => call[c].result.signal # call[d].result.signal

(***************************************************************************)
(* Calls without noise and without F0 offset, each batch element with its  *)
(* own initial phase (initial_phase of shape (B, 1, 1), line 410).         *)
(***************************************************************************)
SilenceConfigs ==
  { [BaseConfig(8, 4, 2) EXCEPT
       !.no_use_noise = TRUE, !.f0_input_variance = v, !.use_harmonic_env = h] :
      v \in {0, 12}, h \in BOOLEAN }

\* F0 0 or 1 Hz of 8, initial phase None or 0 or pi / 2 per batch element
SilenceInputs ==
  UNION { UNION {
    { [B |-> B, n |-> n, f0_frames |-> f, initial_phase |-> ip, infer |-> TRUE] :
        f \in [1..B -> [1..n -> {0, 1}]],
        ip \in {<<>>} \cup [1..B -> {0, 4}] }
    : n \in 1..MaxFrames } : B \in 1..MaxBatch }

InitSilence ==
  /\ model \in {Construct(cfg) : cfg \in SilenceConfigs}
  /\ gen = 0
  /\ call = [c \in Callers |-> Idle]
  /\ loader = NoLoader

NextSilence ==
  \/ \E inputs \in SilenceInputs : ForwardEnter(1, inputs)
  \/ \E p \in CtrlPatterns : ForwardRun(1, p)
  \/ ForwardReturn(1)

SpecSilence == InitSilence /\ [][NextSilence]_vars

\* F0 is 0 in every frame of every batch element of the call
AllUnvoiced(c) ==
  \A b \in 1..call[c].inputs.B : \A k \in 1..call[c].inputs.n :
    call[c].inputs.f0_frames[b][k] = 0

\* C18: with noise and the F0 offset disabled, a call whose F0 is 0 in all
\* frames has, for every frame count, initial phase and f0_input_variance,
\* a combtooth of 0 at every sample, the last included, and hands an
\* all-zero sum (no noise, zero harmonic excitation) to the inverse STFT.
C18_Silence ==
  \A c \in Callers :
    ( /\ Returned(c)
      /\ ~model.use_noise /\ ~model.use_f0_offset
      /\ AllUnvoiced(c) )
    => /\ \A b \in 1..call[c].inputs.B :
            \A i \in 1..Samples(c) :
              /\ call[c].result.combtooth[b][i] = 0
              /\ call[c].result.signal.harmonic[b][i] = 0
       /\ call[c].result.signal.noise = <<>>

(***************************************************************************)
(* NMPSFHiFi.forward (lines 1143-1310).  F0 is in quarter-Hz per sample   *)
(* and the phase in ticks of 1 / (4 * sampling_rate) cycle.  The model is  *)
(* of the inference path (infer = True) with float32 inputs, the floating  *)
(* point formats scaled down: float64, in which the phase is accumulated   *)
(* and wrapped, holds every tick; float32, the dtype of f0 to which the    *)
(* wrapped phase is converted, has a spacing of 2 ticks in the binade      *)
(* [1/2, 1) of a cycle and holds every tick below it.                      *)
(***************************************************************************)
CycleTicksHiFi(m) == 4 * m.sampling_rate

\* torch.rand_like draws from the same global generator, uniformly from
\* [0, 1): here 0 or 1/2, in halves
GlobalRand(k) == GlobalStream[(k % Len(GlobalStream)) + 1] % 2

\* f0 * 2 ** (-variance / 12) * 2 ** (f0_variance / 12), f0_variance =
\* rand * variance: with a variance of two octaves (24 semitones) the factor
\* is 2 ** (2 * rand - 2), with 0 it is 1.  The result is in quarter-Hz.
JitterF0HiFi(m, f0, g) ==
  LET T == Len(f0[1]) IN
  [b \in 1..Len(f0) |->
     [t \in 1..T |->
        f0[b][t] * Pow2(2 - (2 - GlobalRand(g + (b - 1) * T + t - 1))
                              * (m.f0_input_variance \div 24))]]

\* x.to(f0) of a float64 x in [0, 1): the nearest float32, a tie going to
\* the even mantissa
ToFloat32(x, cycle) ==
  IF 2 * x < cycle \/ x % 2 = 0 THEN x
  ELSE IF (x \div 2) % 2 = 0 THEN 2 * (x \div 2) ELSE 2 * (x \div 2) + 2

\* x - torch.floor(x) in float64
WrapFloor(c, cycle) == c - cycle * (c \div cycle)

\* x = x - torch.floor(x); x = x.to(f0), elementwise
WrapPhaseHiFi(m, cum) ==
  [b \in 1..Len(cum) |->
     [t \in 1..Len(cum[b]) |->
        ToFloat32(WrapFloor(cum[b][t], CycleTicksHiFi(m)), CycleTicksHiFi(m))]]

\* f0 + ((ctrls['f0_offset'] - 2.) * 0.5) repeated f0_offset_size_downsamples
\* times each; in quarter-Hz the offset is 2 * (o - 2).
OffsetF0HiFi(m, f0, ctrls) ==
  [b \in 1..Len(f0) |->
     LET off == RepeatEach(ctrls["f0_offset"].rows[b], m.f0_offset_size_downsamples)
         noff == Len(ctrls["f0_offset"].rows[b]) * m.f0_offset_size_downsamples
     IN [t \in 1..Len(f0[b]) |->
           f0[b][t] + (IF t <= noff THEN 2 * (off[t] - 2) ELSE 0)]]

\* Lines 1249-1259: the envelope interpolated linearly between the predicted
\* values, the last one repeated; the slope is multiplied by
\* (j / down) / down.  The values are in units of 1 / down ** 2.
EnvelopeLinear(ctrls, key, down) ==
  [b \in 1..Len(ctrls[key].rows) |->
     LET row == ctrls[key].rows[b]
         n == Len(row)
     IN [i \in 1..(n * down) |->
           LET k == ((i - 1) \div down) + 1
               j == (i - 1) % down
               next == IF k < n THEN row[k + 1] ELSE row[n]
           IN row[k] * down * down + (next - row[k]) * j]]

\* The whole of NMPSFHiFi.forward, which ends without a return statement.
ForwardNMPSFHiFi(m, inputs, g, ctrls) ==
  LET B == inputs.B
      n == inputs.n
      T == n * m.block_size
      W == m.win_length
      has(key) == key \in DOMAIN ctrls
      rowlen(key, down) == IF has(key) THEN Len(ctrls[key].rows[1]) * down ELSE 0
      \* lines 1155-1175
      f0_first == JitterF0HiFi(m, UpsampleF0(m, inputs), g)
      x_first == WrapPhaseHiFi(m, Accumulate(f0_first, inputs))
      \* lines 1181-1196
      f0 == IF m.use_f0_offset THEN OffsetF0HiFi(m, f0_first, ctrls) ELSE f0_first
      cum == Accumulate(f0, inputs)
      x == WrapPhaseHiFi(m, cum)
      \* lines 1201-1202: n predicted filters and the last once more
      pair == IF has("harmonic_magnitude") /\ has("harmonic_phase")
                 /\ Broadcasts(ctrls["harmonic_magnitude"].width,
                               ctrls["harmonic_phase"].width)
                THEN Max(ctrls["harmonic_magnitude"].width,
                         ctrls["harmonic_phase"].width)
                ELSE 0
      filter_frames == n + 1
      \* lines 1222-1246
      combtooth == Combtooth(x)
      frames == StftFrames(T, W, m.block_size)
      static_frames == StaticFrames(T, m.block_size)
      out_frames == Max(Max(frames, static_frames), filter_frames)
      len == IstftLength(out_frames, W, m.block_size)
      \* lines 1248-1262
      harmonic_env ==
        IF m.use_harmonic_env
          THEN EnvelopeLinear(ctrls, "harmonic_envelope_magnitude",
                              m.harmonic_env_size_downsamples)
          ELSE <<>>
      err == FirstError(<<
        <<m.use_f0_offset => has("f0_offset"), "KeyError f0_offset">>,
        <<m.use_f0_offset =>
            rowlen("f0_offset", m.f0_offset_size_downsamples) = T,
          "reshape f0_offset">>,
        <<has("harmonic_magnitude") /\ has("harmonic_phase"), "KeyError harmonic">>,
        <<pair # 0, "size harmonic">>,
        <<Broadcasts(frames, static_frames), "size static_freq_minphase_wsinc">>,
        <<Broadcasts(pair, W \div 2 + 1), "size src_filter bins">>,
        <<Broadcasts(Max(frames, static_frames), filter_frames), "size src_filter">>,
        <<IstftAccepts(W, m.block_size), "istft">>,
        <<m.use_harmonic_env => has("harmonic_envelope_magnitude"),
          "KeyError harmonic_envelope_magnitude">>,
        <<m.use_harmonic_env =>
            rowlen("harmonic_envelope_magnitude",
                   m.harmonic_env_size_downsamples) \in {len, 1},
          "size harmonic_env">>,
        <<has("nsf_param"), "KeyError nsf_param">> >>)
  IN IF err = "none"
       THEN [status |-> "ok", error |-> err, returns |-> "None",
             acc_dtype |-> AccDtype(inputs),
             first |-> [f0 |-> f0_first, x |-> x_first,
                        phase_frames |-> PhaseFrames(m, x_first)],
             f0 |-> f0, cum |-> cum, x |-> x,
             combtooth |-> combtooth,
             frames |-> frames,
             filter_frames |-> filter_frames,
             harmonic_env |-> harmonic_env,
             generator_input |->
               [len |-> len, window |-> m.window, harmonic |-> combtooth,
                src_filter |-> <<ctrls["harmonic_magnitude"].id,
                                 ctrls["harmonic_phase"].id>>,
                minphase |-> m.static_freq_minphase_wsinc,
                harmonic_env |-> harmonic_env,
                nsf_param |-> ctrls["nsf_param"].id]]
       ELSE [status |-> "error", error |-> err,
             acc_dtype |-> AccDtype(inputs),
             first |-> [f0 |-> f0_first, x |-> x_first,
                        phase_frames |-> PhaseFrames(m, x_first)]]

\* NMPSFHiFi.forward runs: rand_like draws B * T values from the global
\* generator, the predictor returns pattern p.
ForwardRunNMPSFHiFi(c, p) ==
  /\ call[c].pc = "entered"
  /\ model.type = "NMPSFHiFi"
  /\ LET inputs == call[c].inputs
         ctrls == PredictorOutput(model, inputs, p)
     IN /\ call' = [call EXCEPT ![c] =
                      [pc |-> "done", inputs |-> inputs, gen0 |-> call[c].gen0,
                       ctrl |-> p,
                       result |-> ForwardNMPSFHiFi(model, inputs, gen, ctrls)]]
        /\ gen' = AdvanceGen(gen, inputs.B * inputs.n * model.block_size)
        /\ model' = model
  /\ UNCHANGED loader

\* CombSubMinimumNoisedPhase.forward runs on an instance of that class
ForwardRunCombSub(c, p) ==
  /\ model.type = "CombSubMinimumNoisedPhase"
  /\ ForwardRun(c, p)

\* instances of both classes with a window of 6 samples and a block of 4,
\* the envelopes predicted at every second sample
VariantConfigs ==
  { [BaseConfig(8, 4, 6) EXCEPT
       !.f0_input_variance = v, !.use_harmonic_env = h, !.use_f0_offset = o,
       !.harmonic_env_size_downsamples = 2, !.noise_env_size_downsamples = 2] :
      v \in {0, 24}, h \in BOOLEAN, o \in BOOLEAN }

\* F0 0, 3 or 7 Hz of 8; initial phase None, just below 0, or pi / 2
VariantInputs ==
       CallInputs({1}, 1..MaxFrames, {0, 3, 7}, {-1, 8}, {TRUE})
  \cup CallInputs(2..MaxBatch, {1}, {0, 3, 7}, {-1, 8}, {TRUE})

InitVariants ==
  /\ model \in {ConstructNMPSFHiFi(cfg) : cfg \in VariantConfigs}
               \cup {Construct(cfg) : cfg \in {q \in VariantConfigs :
                                                q.f0_input_variance = 0}}
  /\ gen = 0
  /\ call = [c \in Callers |-> Idle]
  /\ loader = NoLoader

NextVariants ==
  \/ \E inputs \in VariantInputs : ForwardEnter(1, inputs)
  \/ \E p \in CtrlPatterns : ForwardRunNMPSFHiFi(1, p)
  \/ \E p \in CtrlPatterns : ForwardRunCombSub(1, p)
  \/ ForwardReturn(1)

SpecVariants == InitVariants /\ [][NextVariants]_vars

\* the envelope values forward multiplies onto the excitation of batch
\* element b, and the value that stands for 1
AppliedEnvelopes(c, b) ==
  LET ctrls == PredictorOutput(model, call[c].inputs, call[c].ctrl) IN
  IF model.type = "NMPSFHiFi"
    THEN IF model.use_harmonic_env THEN {call[c].result.harmonic_env[b]} ELSE {}
    ELSE (IF model.use_harmonic_env
            THEN {Envelope(ctrls, "harmonic_envelope_magnitude",
                           model.harmonic_env_size_downsamples)[b]}
            ELSE {})
         \cup (IF model.use_noise /\ model.use_noise_env
                 THEN {Envelope(ctrls, "noise_envelope_magnitude",
                                model.noise_env_size_downsamples)[b]}
                 ELSE {})

EnvelopeOne ==
  IF model.type = "NMPSFHiFi"
    THEN model.harmonic_env_size_downsamples * model.harmonic_env_size_downsamples
    ELSE 1

\* C19: in every model variant every value of a harmonic or noise envelope
\* that is multiplied onto an excitation signal lies in [-1, 1], whatever
\* the predicted envelope values.
C19_EnvelopeClamped ==
  \A c \in Callers :
    Returned(c) =>
      \A b \in 1..call[c].inputs.B : \A env \in AppliedEnvelopes(c, b) :
        \A i \in 1..Len(env) : -EnvelopeOne <= env[i] /\ env[i] <= EnvelopeOne

\* every per-sample F0 of batch element b of an NMPSFHiFi call is in
\* [0, sampling_rate)
F0InRangeHiFi(r, b) ==
  \A t \in 1..Len(r.f0[b]) : 0 <= r.f0[b][t] /\ r.f0[b][t] < CycleTicksHiFi(model)

\* C20: in NMPSFHiFi.forward every sample of the wrapped phase is in [0, 1)
\* for every F0 sequence and initial phase, and for 0 <= f0 < sampling_rate
\* the detector gives, at every sample but the last of the sequence, an
\* impulse exactly where the accumulated phase passes a whole number of
\* cycles between this sample and the next.
C20_FloorWrap ==
  \A c \in Callers :
    (Returned(c) /\ model.type = "NMPSFHiFi") =>
      LET r == call[c].result
          cycle == CycleTicksHiFi(model)
      IN \A b \in 1..call[c].inputs.B :
           /\ \A t \in 1..Len(r.x[b]) : 0 <= r.x[b][t] /\ r.x[b][t] < cycle
           /\ F0InRangeHiFi(r, b) =>
                \A t \in 1..(Len(r.x[b]) - 1) :
                  r.combtooth[b][t] =
                    (IF r.cum[b][t + 1] \div cycle # r.cum[b][t] \div cycle
                       THEN 1 ELSE 0)

\* C21: with the ending phase of the first chunk handed to the second
\* (jitter and F0 offset off), the combtooth of the two chunks, one after
\* the other, has its impulses at the sample indices of the combtooth of
\* the contiguous call, at every sample, the last of the first chunk and
\* the first of the second included.
C21_ChunkedCombtooth ==
  Chunked =>
    \A b \in 1..call[1].inputs.B :
      LET T1 == Len(call[2].result.combtooth[b]) IN
      /\ \A t \in 1..T1 :
           call[2].result.combtooth[b][t] = call[1].result.combtooth[b][t]
      /\ \A t \in 1..Len(call[3].result.combtooth[b]) :
           call[3].result.combtooth[b][t] = call[1].result.combtooth[b][T1 + t]

(***************************************************************************)
(* The frame counts of the short-window pass (lines 458-464, 483-495,     *)
(* 509-520) on instances whose win_length is a multiple of 16 and whose    *)
(* block_size is a multiple of 4.                                          *)
(***************************************************************************)
ShortShapeConfigs ==
  { [BaseConfig(8, shape[1], shape[2]) EXCEPT
       !.use_short_filter = h, !.use_noise_short_filter = s] :
      shape \in {<<4, 16>>, <<8, 16>>, <<4, 32>>, <<8, 32>>},
      h \in BOOLEAN, s \in BOOLEAN }

ShortShapeInputs == CallInputs({1}, 1..MaxFrames, {0, 3}, {}, {TRUE})

InitShortShape ==
  /\ model \in {Construct(cfg) : cfg \in ShortShapeConfigs}
  /\ gen = 0
  /\ call = [c \in Callers |-> Idle]
  /\ loader = NoLoader

NextShortShape ==
  \/ \E inputs \in ShortShapeInputs : ForwardEnter(1, inputs)
  \/ \E p \in CtrlPatterns : ForwardRun(1, p)
  \/ ForwardReturn(1)

SpecShortShape == InitShortShape /\ [][NextShortShape]_vars

\* the short pass of instance m is switched on
ShortPassOn(m) ==
  m.use_short_filter \/ (m.use_noise /\ m.use_noise_short_filter)

\* the short filters of a call have as many frames as the short-hop STFT of
\* its excitation, and forward does not raise at their multiplication
ShortFramesMatch(c) ==
  LET n == call[c].inputs.n
      T == n * model.block_size
      hop_s == (model.win_length \div 4) \div 4
      key == IF model.use_short_filter THEN "short_harmonic_magnitude"
             ELSE "short_noise_magnitude"
  IN /\ FilterFrames(model, n, model.split_map[key])
          = StftFrames(T, model.win_length, hop_s)
     /\ call[c].result.error \notin {"size short_harmonic", "size short_noise"}

\* C22: with use_short_filter or use_noise_short_filter enabled, for every
\* win_length divisible by 16, every block_size divisible by 4 and every
\* frame count, the short-path filter sequence (last frame repeated) has as
\* many frames as the STFT with hop win_length / 16 of the excitation, and
\* the per-frame multiplication is defined.
C22_ShortFramesNeverFail ==
  \A c \in Callers :
    ( /\ call[c].pc = "done"
      /\ ShortPassOn(model)
      /\ model.win_length % 16 = 0
      /\ model.block_size % 4 = 0 )
    => ShortFramesMatch(c)

\* the corrected per-sample F0 of batch element b is below sampling_rate / 2
\* in absolute value
F0MagnitudeInRange(r, b) ==
  \A t \in 1..Len(r.f0[b]) :
    -model.sampling_rate < r.f0[b][t] /\ r.f0[b][t] < model.sampling_rate

\* C23: with use_f0_offset the per-sample F0 is f0 + (f0_offset - 2) * 0.5,
\* each offset value repeated f0_offset_size_downsamples times, and for
\* every predicted offset, those that make the corrected F0 zero or negative
\* included, the combtooth of a call whose corrected |F0| is below
\* sampling_rate / 2 never has an impulse on two consecutive samples (the
\* last sample of the sequence left aside).
C23_NoDoubleFire ==
  \A c \in Callers :
    (Returned(c) /\ model.use_f0_offset) =>
      LET r == call[c].result
          ctrls == PredictorOutput(model, call[c].inputs, call[c].ctrl)
          down == model.f0_offset_size_downsamples
      IN \A b \in 1..Len(r.x) :
           /\ \A t \in 1..Len(r.f0[b]) :
                r.f0[b][t] = r.first.f0[b][t]
                  + (ctrls["f0_offset"].rows[b][((t - 1) \div down) + 1] - 2)
           /\ F0MagnitudeInRange(r, b) =>
                \A i \in 1..(Len(r.x[b]) - 2) :
                  ~(r.combtooth[b][i] = 1 /\ r.combtooth[b][i + 1] = 1)

\* C24: in NMPSFHiFi.forward with use_harmonic_env, downsample factor d and
\* block-rate values v_0 .. v_(m-1), the envelope at sample j * d + k
\* (0 <= k < d) is v_j + (v_(j+1) - v_j) * k / d, with v_m = v_(m-1).  (The
\* envelope of the model is in units of 1 / d ** 2.)
C24_LinearInterpolation ==
  \A c \in Callers :
    (Returned(c) /\ model.type = "NMPSFHiFi" /\ model.use_harmonic_env) =>
      LET d == model.harmonic_env_size_downsamples
          ctrls == PredictorOutput(model, call[c].inputs, call[c].ctrl)
      IN \A b \in 1..call[c].inputs.B :
           LET v == ctrls["harmonic_envelope_magnitude"].rows[b]
               m == Len(v)
               env == call[c].result.harmonic_env[b]
           IN /\ Len(env) = m * d
              /\ \A j \in 0..(m - 1) : \A k \in 0..(d - 1) :
                   LET next == IF j + 1 < m THEN v[j + 2] ELSE v[m]
                   IN env[j * d + k + 1] * d
                        = (v[j + 1] * d + (next - v[j + 1]) * k) * d * d

(***************************************************************************)
(* CombSubMinimumNoisedPhase_export (lines 561-927): the constructor draws *)
(* one noise buffer and builds the same split_map; forward has no          *)
(* initial_phase and no infer argument, no F0 jitter and no F0 offset, and *)
(* transforms with the STFT of modules.stft at hop block_size.             *)
(***************************************************************************)
\* The instance the export constructor leaves behind (lines 591-759).
ConstructExport(cfg) ==
  [Construct(cfg) EXCEPT !.type = "CombSubMinimumNoisedPhase_export",
                         !.static_add_noise_t = <<>>]

\* self.stft.transform is defined outside this file: the number of frames it
\* returns for n input frames is one of: T // block_size + 1 (the count line
\* 904 builds mp_filter for), a single frame, or one frame per filter.
TransformFrameCounts(n) == {n + 1, 1, 4 * n + 1}

\* Lines 789-809: what the export forward has computed when it calls the
\* predictor.
ForwardFirstExport(m, inputs) ==
  LET f0 == UpsampleF0(m, inputs)
      cum == [b \in 1..Len(f0) |-> CumSum(f0[b], 1, Len(f0[b]))]
      x == WrapPhase(m, cum)
  IN [f0 |-> f0, x |-> x, phase_frames |-> PhaseFrames(m, x)]

\* The whole of the export forward: ctrls what the predictor returns, fr the
\* number of frames self.stft.transform returns.
ForwardExport(m, inputs, ctrls, fr) ==
  LET B == inputs.B
      n == inputs.n
      T == n * m.block_size
      first == ForwardFirstExport(m, inputs)
      has(key) == key \in DOMAIN ctrls
      rowlen(key, down) == IF has(key) THEN Len(ctrls[key].rows[1]) * down ELSE 0
      \* exp(magnitude).reshape(...) * cos(phase).reshape(...): frames (0: fails)
      frames_of(mag, ph) ==
        IF has(mag) /\ has(ph)
             /\ FilterFrames(m, n, ctrls[mag].width) # 0
             /\ FilterFrames(m, n, ctrls[mag].width)
                  = FilterFrames(m, n, ctrls[ph].width)
          THEN FilterFrames(m, n, ctrls[mag].width)
          ELSE 0
      \* lines 815-823
      f0 == first.f0
      cum == [b \in 1..Len(f0) |-> CumSum(f0[b], 1, Len(f0[b]))]
      x == WrapPhase(m, cum)
      \* lines 853-865
      combtooth == Combtooth(x)
      excitation ==
        IF m.use_harmonic_env
          THEN ApplyEnvelope(combtooth,
                 Envelope(ctrls, "harmonic_envelope_magnitude",
                          m.harmonic_env_size_downsamples))
          ELSE combtooth
      \* lines 883-898
      noise_raw == NoiseExcitation(m, B, T)
      noise_t ==
        IF m.use_noise /\ m.use_noise_env
          THEN ApplyEnvelope(noise_raw,
                 Envelope(ctrls, "noise_envelope_magnitude",
                          m.noise_env_size_downsamples))
          ELSE noise_raw
      \* lines 900-919
      mp_frames == T \div m.block_size + 1
      harmonic_frames == Max(Max(fr, mp_frames),
                             frames_of("harmonic_magnitude", "harmonic_phase"))
      noise_frames == Max(fr, frames_of("noise_magnitude", "noise_phase"))
      err == FirstError(<<
        <<has("harmonic_magnitude") /\ has("harmonic_phase"), "KeyError harmonic">>,
        <<frames_of("harmonic_magnitude", "harmonic_phase") # 0, "reshape harmonic">>,
        <<has("noise_magnitude") /\ has("noise_phase"), "KeyError noise">>,
        <<frames_of("noise_magnitude", "noise_phase") # 0, "reshape noise">>,
        <<m.use_harmonic_env => has("harmonic_envelope_magnitude"),
          "KeyError harmonic_envelope_magnitude">>,
        <<m.use_harmonic_env =>
            rowlen("harmonic_envelope_magnitude",
                   m.harmonic_env_size_downsamples) \in {T, 1},
          "size harmonic_env">>,
        <<(m.use_noise /\ m.use_noise_env) => has("noise_envelope_magnitude"),
          "KeyError noise_envelope_magnitude">>,
        <<(m.use_noise /\ m.use_noise_env) =>
            rowlen("noise_envelope_magnitude",
                   m.noise_env_size_downsamples) \in {T, 1},
          "size noise_env">>,
        <<Broadcasts(fr, mp_frames), "size mp_filter">>,
        <<Broadcasts(Max(fr, mp_frames),
                     frames_of("harmonic_magnitude", "harmonic_phase")),
          "size src_filter">>,
        <<m.use_noise, "UnboundLocalError noise_t">>,
        <<Broadcasts(fr, frames_of("noise_magnitude", "noise_phase")),
          "size noise_filter">> >>)
  IN IF err = "none"
       THEN [status |-> "ok", error |-> err,
             acc_dtype |-> "float64",
             first |-> first,
             f0 |-> f0, cum |-> cum, x |-> x,
             combtooth |-> combtooth,
             excitation |-> excitation,
             noise_t |-> noise_t,
             frames |-> fr,
             filter_frames |-> frames_of("harmonic_magnitude", "harmonic_phase"),
             \* lines 900-911: computed, and passed on to nothing
             combtooth_stft |->
               [frames |-> harmonic_frames,
                harmonic |-> excitation,
                src_filter |-> <<ctrls["harmonic_magnitude"].id,
                                 ctrls["harmonic_phase"].id>>,
                minphase |-> m.static_freq_minphase_wsinc],
             \* lines 922-927: self.stft.inverse(noise_stft, noise_stft_i)
             signal |->
               [frames |-> noise_frames,
                window |-> m.window,
                harmonic |-> <<>>,
                src_filter |-> <<>>,
                minphase |-> <<>>,
                noise |-> noise_t,
                noise_filter |-> <<ctrls["noise_magnitude"].id,
                                   ctrls["noise_phase"].id>>]]
       ELSE [status |-> "error", error |-> err,
             acc_dtype |-> "float64",
             first |-> first]

\* the export forward runs: the predictor returns pattern p, the transform
\* fr frames; it draws nothing from the global generator
ForwardRunExport(c, p, fr) ==
  /\ call[c].pc = "entered"
  /\ model.type = "CombSubMinimumNoisedPhase_export"
  /\ LET inputs == call[c].inputs
         ctrls == PredictorOutput(model, inputs, p)
     IN call' = [call EXCEPT ![c] =
                   [pc |-> "done", inputs |-> inputs, gen0 |-> call[c].gen0,
                    ctrl |-> p, frames |-> fr,
                    result |-> ForwardExport(model, inputs, ctrls, fr)]]
  /\ UNCHANGED <<model, gen, loader>>

\* C26: the noise buffer of a model returned by load_model is the one the
\* configured noise_seed and win_length give, whatever the checkpoint holds.
C26_NoiseFromSeedOnly ==
  (loader.pc = "returned" /\ loader.fn = "load_model") =>
    loader.result.model.static_noise_t = StaticNoise(loader.dir.cfg)

\* C27: in every forward call, whatever infer is, the cumulative sum of
\* f0 / sampling_rate is carried out in double precision.
C27_DoubleAccumulation ==
  \A c \in Callers :
    call[c].pc = "done" => call[c].result.acc_dtype = "float64"

(***************************************************************************)
(* SpecSchema: instances of CombSubMinimumNoisedPhase and of the export    *)
(* variant built with every combination of the nine flags, one caller.     *)
(* KeysRead, LocalsAssigned and LocalsRead are the control keys and the    *)
(* conditionally assigned local values that the statements of forward      *)
(* read and assign under the flags of the instance.                        *)
(***************************************************************************)
ExportType == "CombSubMinimumNoisedPhase_export"

\* ctrls[key] in forward: lines 425-502, and lines 833-888 of the export
KeysRead(m) ==
  IF m.type = ExportType
    THEN {"harmonic_magnitude", "harmonic_phase", "noise_magnitude", "noise_phase"}
         \cup (IF m.use_harmonic_env THEN {"harmonic_envelope_magnitude"} ELSE {})
         \cup (IF m.use_noise /\ m.use_noise_env
                 THEN {"noise_envelope_magnitude"} ELSE {})
    ELSE {"harmonic_magnitude", "harmonic_phase"}
         \cup (IF m.use_f0_offset THEN {"f0_offset"} ELSE {})
         \cup (IF m.use_noise THEN {"noise_magnitude", "noise_phase"} ELSE {})
         \cup (IF m.add_noise THEN {"add_noise_magnitude", "add_noise_phase"} ELSE {})
         \cup (IF m.use_short_filter
                 THEN {"short_harmonic_magnitude", "short_harmonic_phase"} ELSE {})
         \cup (IF m.use_noise /\ m.use_noise_short_filter
                 THEN {"short_noise_magnitude", "short_noise_phase"} ELSE {})
         \cup (IF m.use_harmonic_env THEN {"harmonic_envelope_magnitude"} ELSE {})
         \cup (IF m.use_noise /\ m.use_noise_env
                 THEN {"noise_envelope_magnitude"} ELSE {})

\* the local values forward assigns inside an `if` on the flags
LocalsAssigned(m) ==
  IF m.type = ExportType
    THEN {"noise_filter", "noise_filter_i", "noise_stft", "noise_stft_i"}
         \cup (IF m.use_harmonic_env THEN {"harmonic_env"} ELSE {})
         \cup (IF m.use_noise THEN {"noise_t"} ELSE {})
         \cup (IF m.use_noise /\ m.use_noise_env THEN {"noise_env"} ELSE {})
    ELSE (IF m.use_noise THEN {"noise_filter", "noise_t", "noise_stft"} ELSE {})
         \cup (IF m.add_noise THEN {"add_noise_filter"} ELSE {})
         \cup (IF m.use_short_filter
                 THEN {"src_short_filter", "combtooth_stft_s"} ELSE {})
         \cup (IF m.use_noise /\ m.use_noise_short_filter
                 THEN {"noise_short_filter", "noise_stft_s"} ELSE {})
         \cup (IF m.use_harmonic_env THEN {"harmonic_env"} ELSE {})
         \cup (IF m.use_noise /\ m.use_noise_env THEN {"noise_env"} ELSE {})

\* the same local values where forward reads them
LocalsRead(m) ==
  IF m.type = ExportType
    THEN {"noise_t", "noise_filter", "noise_filter_i", "noise_stft", "noise_stft_i"}
         \cup (IF m.use_harmonic_env THEN {"harmonic_env"} ELSE {})
         \cup (IF m.use_noise /\ m.use_noise_env THEN {"noise_env"} ELSE {})
    ELSE (IF m.use_noise THEN {"noise_filter", "noise_t", "noise_stft"} ELSE {})
         \cup (IF m.add_noise THEN {"add_noise_filter"} ELSE {})
         \cup (IF m.use_short_filter
                 THEN {"src_short_filter", "combtooth_stft_s"} ELSE {})
         \cup (IF m.use_noise /\ m.use_noise_short_filter
                 THEN {"noise_short_filter", "noise_stft_s"} ELSE {})
         \cup (IF m.use_harmonic_env THEN {"harmonic_env"} ELSE {})
         \cup (IF m.use_noise /\ m.use_noise_env THEN {"noise_env"} ELSE {})

InitSchema ==
  /\ model \in {Construct(cfg) : cfg \in FlagConfigs}
             \cup {ConstructExport(cfg) : cfg \in FlagConfigs}
  /\ gen = 0
  /\ call = [c \in Callers |-> Idle]
  /\ loader = NoLoader

NextSchema ==
  \/ \E inputs \in FlagInputs : ForwardEnter(1, inputs)
  \/ \E p \in CtrlPatterns : ForwardRunCombSub(1, p)
  \/ \E p \in CtrlPatterns :
       \E fr \in (IF call[1].pc = "entered"
                    THEN TransformFrameCounts(call[1].inputs.n) ELSE {}) :
         ForwardRunExport(1, p, fr)
  \/ ForwardReturn(1)

SpecSchema == InitSchema /\ [][NextSchema]_vars

\* C25: every call of the export forward returns a signal that is made of the
\* harmonic excitation through the harmonic filter plus the noise through the
\* noise filter, and its excitation and its filters are those that
\* CombSubMinimumNoisedPhase.forward computes for the same inputs.
C25_ExportSumsHarmonicAndNoise ==
  (call[1].pc = "done" /\ model.use_noise
     /\ model.type = "CombSubMinimumNoisedPhase_export") =>
    LET r == call[1].result
        ctrls == PredictorOutput(model, call[1].inputs, call[1].ctrl)
        \* the CombSubMinimumNoisedPhase instance of the same arguments
        ref == Forward([model EXCEPT !.type = "CombSubMinimumNoisedPhase"],
                       call[1].inputs, 0, ctrls)
    IN /\ r.status = "ok"
       /\ ref.status = "ok" =>
            /\ r.excitation = ref.excitation
            /\ r.signal.harmonic = ref.signal.harmonic
            /\ r.signal.src_filter = ref.signal.src_filter
            /\ r.signal.noise = ref.signal.noise
            /\ r.signal.noise_filter = ref.signal.noise_filter

\* C28: under every combination of flags, of both classes, every control key
\* forward reads is a key of split_map and every local value forward reads
\* is assigned, and no call fails for a missing key or an unbound value.
C28_SchemaCoversReads ==
  /\ KeysRead(model) \subseteq DOMAIN model.split_map
  /\ LocalsRead(model) \subseteq LocalsAssigned(model)
  /\ call[1].pc = "done" =>
       call[1].result.error \notin
         { "KeyError f0_offset", "KeyError harmonic", "KeyError noise",
           "KeyError add_noise", "KeyError short_harmonic", "KeyError short_noise",
           "KeyError harmonic_envelope_magnitude",
           "KeyError noise_envelope_magnitude", "UnboundLocalError noise_t" }

\* The constructor arguments an instance was built with.
ConfigOf(m) ==
  [sampling_rate |-> m.sampling_rate, block_size |-> m.block_size,
   win_length |-> m.win_length,
   f0_input_variance |-> m.f0_input_variance,
   f0_offset_size_downsamples |-> m.f0_offset_size_downsamples,
   noise_env_size_downsamples |-> m.noise_env_size_downsamples,
   harmonic_env_size_downsamples |-> m.harmonic_env_size_downsamples,
   use_harmonic_env |-> m.use_harmonic_env, use_noise_env |-> m.use_noise_env,
   use_add_noise_env |-> m.use_add_noise_env, add_noise |-> m.add_noise,
   use_phase_offset |-> m.use_phase_offset, use_f0_offset |-> m.use_f0_offset,
   no_use_noise |-> ~m.use_noise, use_short_filter |-> m.use_short_filter,
   use_noise_short_filter |-> m.use_noise_short_filter,
   noise_seed |-> m.noise_seed]

\* The instance built with the same arguments but add_noise = False.
WithoutAddNoise(m) == Construct([ConfigOf(m) EXCEPT !.add_noise = FALSE])

\* C29: an instance built with add_noise has the static_noise_t of the
\* instance built without it, and its forward gives, for the same inputs and
\* the same values of the other controls, the same result as that instance,
\* whatever add_noise_magnitude and add_noise_phase are.
C29_AddNoiseInert ==
  \A c \in Callers :
    (call[c].pc = "done" /\ model.add_noise) =>
      LET off == WithoutAddNoise(model)
          inputs == call[c].inputs
          ctrls == PredictorOutput(model, inputs, call[c].ctrl)
          r_off == Forward(off, inputs, call[c].gen0,
                           [key \in DOMAIN off.split_map |-> ctrls[key]])
      IN /\ off.static_noise_t = model.static_noise_t
         /\ DOMAIN off.split_map
              = DOMAIN model.split_map
                  \ {"add_noise_magnitude", "add_noise_phase",
                      "add_noise_envelope_magnitude"}
         /\ call[c].result = r_off
         /\ \A q \in CtrlPatterns :
              Forward(model, inputs, call[c].gen0,
                      [ctrls EXCEPT !["add_noise_magnitude"].id = q,
                                    !["add_noise_phase"].id = (q + 1) % 3])
                = call[c].result

\* a call on an instance with the extra noise layer and the noise layer has
\* returned a signal; the two buffers are different draws of the same length
C29_Witness ==
  /\ Returned(1)
  /\ model.add_noise /\ model.use_noise /\ model.use_add_noise_env
  /\ call[1].result.signal.noise # <<>>
  /\ Len(model.static_add_noise_t) = Len(model.static_noise_t)
  /\ model.static_add_noise_t # model.static_noise_t
  /\ WithoutAddNoise(model).static_add_noise_t = <<>>

\* C30: in a call with a batch of one, the combtooth value of the last of
\* the T samples is 1 exactly when the first sample's wrapped phase is below
\* the last sample's, and that of every other sample i is 1 exactly when the
\* wrapped phase of sample i + 1 is below that of sample i.
C30_BoundaryImpulse ==
  \A c \in Callers :
    (Returned(c) /\ call[c].inputs.B = 1) =>
      LET x == call[c].result.x[1]
          ct == call[c].result.combtooth[1]
          T == Len(x)
      IN /\ Len(ct) = T
         /\ ct[T] = (IF x[1] < x[T] THEN 1 ELSE 0)
         /\ \A i \in 1..(T - 1) : ct[i] = (IF x[i + 1] < x[i] THEN 1 ELSE 0)

\* a call of one sequence has returned whose last frame has F0 0, so that
\* the phase stands still at the end, and whose last sample fires because
\* the first sample's phase is below the last one's
C30_Witness ==
  /\ Returned(1)
  /\ call[1].inputs.B = 1 /\ call[1].inputs.n = 2
  /\ LET x == call[1].result.x[1]
         T == Len(x)
     IN /\ call[1].result.f0[1][T] = 0
        /\ x[T - 1] = x[T]
        /\ x[1] < x[T]
        /\ call[1].result.combtooth[1][T] = 1
        /\ call[1].result.combtooth[1][T - 1] = 0

====
